---- MODULE Spec2Model ----
(***************************************************************************)
(* The MIDI input pipeline of midi_bridge (input.rs, packet.rs):           *)
(*   driver callback -> bounded hand-off queue -> coalescer thread ->      *)
(*   state store / note queue -> dispatch thread -> host callback,         *)
(* together with InputHandle::close.  One open input is modelled.          *)
(*                                                                         *)
(* A 64-bit word of a dirty bitset is modelled as the set of its set bit   *)
(* positions (a subset of 0..63).  An array of the state store is held as  *)
(* the finite map of its non-default elements (Get, Put): the map without  *)
(* keys is the array State::default builds.  The pipeline actions do not   *)
(* model wall-clock time: a sleep is a step that may be taken at any time. *)
(* The deadline arithmetic of dispatch_loop is modelled by the Tick        *)
(* actions over a clock of their own.                                      *)
(***************************************************************************)
EXTENDS Integers, Sequences, FiniteSets, TLC

\* ------------------------------------------------------------------------
\* Program constants
\* ------------------------------------------------------------------------

\* input.rs:14 and :15 set both capacities to 4096.  The model keeps the
\* code's comparisons against the capacity and scales the capacity itself.
RAW_QUEUE_CAP == 2
NOTE_QUEUE_CAP == 2

NUM_CHANNELS == 16
NUM_INDICES == 128
WORD_BITS == 64
NUM_WORDS == 2
PB_CENTER == 8192
BYTE == 256
HALF == 65536
MAGIC == 1296647250
VERSION == 1

KIND_CC == 1
KIND_PB == 2
KIND_CH_PRESS == 3
KIND_POLY_PRESS == 4
KIND_PROG == 5
KIND_NOTE == 6

Channels == 0 .. (NUM_CHANNELS - 1)
Indices == 0 .. (NUM_INDICES - 1)
Words == 0 .. (NUM_WORDS - 1)

\* ------------------------------------------------------------------------
\* Bounds of the model
\* ------------------------------------------------------------------------

\* How many times the driver invokes the ingest callback in one behaviour.
MaxMsgs == 2
MaxNoteMsgs == 4
MaxCcMsgs == 3
MaxPbMsgs == 3
MaxOrderMsgs == 3
MaxWideMsgs == 2
MaxCalls == 5
MaxRecords == 2
MaxIngestMsgs == 3
MaxShortMsgs == 2
MaxEdgeMsgs == 2
MaxScanMsgs == 10
MaxTime == 12
MaxFairMsgs == 2
MaxLockMsgs == 2

\* input.rs:351: the period is 1 / rate seconds; the model counts time in
\* units of which a period has PERIOD
PERIOD == 2

\* ------------------------------------------------------------------------
\* Variables
\* ------------------------------------------------------------------------
VARIABLES
    clock,             \* driver callbacks so far (the driver's monotonic clock)
    conn,              \* the driver connection (and with it raw_tx) is alive
    cb_raw,            \* RawMsg built by a driver callback that has not sent it yet
    cb_msg,            \* history: the arguments (ts, msg) of the latest driver callback
    rawq,              \* the bounded hand-off channel
    state,             \* SharedState.state (Mutex<State>)
    state_poisoned,    \* the state mutex was poisoned by a panic under the lock
    notes,             \* SharedState.notes (Mutex<VecDeque<NoteEdge>>)
    dropped_raw,       \* SharedState.dropped_raw
    dropped_note,      \* SharedState.dropped_note
    stop,              \* the shared stop flag
    callback_enabled,  \* the callback-enabled flag
    c_pc,              \* coalescer thread position
    d_pc,              \* dispatch thread position
    d_dropped_raw,     \* dispatch_loop local dropped_raw
    d_dropped_note,    \* dispatch_loop local dropped_note
    d_records,         \* dispatch_loop local records
    d_packet,          \* dispatch_loop local packet
    h_pc,              \* position of InputHandle::close
    last_packet,       \* history: the packet the host callback received last
    seen,              \* history: value the dispatcher last read, per slot
    run,               \* history: per slot, the messages applied since the last scan
    tally,             \* history: counts of accepted messages and counted drops
    enc_args,          \* the arguments of a call of encode_packet
    enc_buf,           \* the buffer encode_packet returned
    NEXT_HANDLE,       \* lib.rs NEXT_HANDLE
    INPUTS,            \* lib.rs INPUTS: handle -> InputHandle
    OUTPUTS,           \* lib.rs OUTPUTS: handle -> OutputHandle
    objs,              \* every InputHandle and OutputHandle created, and its threads
    issued,            \* history: the ids next_handle returned
    ret,               \* history: the last call of the C interface and its result
    instant,           \* Instant::now()
    next_tick,         \* dispatch_loop local next_tick
    t_pc,              \* dispatch_loop: position in lines 353-363
    t_slept,           \* history: the current iteration called thread::sleep
    t_last,            \* history: how the deadline was last computed
    state_lock,        \* the thread that holds the guard of SharedState.state
    notes_lock,        \* the thread that holds the guard of SharedState.notes
    c_raw              \* handle_raw parameter raw, while handle_raw runs

ingestVars == <<clock, cb_raw, cb_msg>>
storeVars == <<state, state_poisoned, notes>>
flagVars == <<stop, callback_enabled>>
dispatchLocals == <<d_dropped_raw, d_dropped_note, d_records, d_packet>>
historyVars == <<last_packet, seen, run, tally>>
codecVars == <<enc_args, enc_buf>>
libVars == <<NEXT_HANDLE, INPUTS, OUTPUTS, objs, issued, ret>>
tickVars == <<instant, next_tick, t_pc, t_slept, t_last>>
lockVars == <<state_lock, notes_lock, c_raw>>

inputVars ==
    <<clock, conn, cb_raw, cb_msg, rawq, state, state_poisoned, notes, dropped_raw,
      dropped_note, stop, callback_enabled, c_pc, d_pc, d_dropped_raw,
      d_dropped_note, d_records, d_packet, h_pc, last_packet, seen, run, tally>>

vars ==
    <<clock, conn, cb_raw, cb_msg, rawq, state, state_poisoned, notes, dropped_raw,
      dropped_note, stop, callback_enabled, c_pc, d_pc, d_dropped_raw,
      d_dropped_note, d_records, d_packet, h_pc, last_packet, seen, run, tally,
      enc_args, enc_buf, NEXT_HANDLE, INPUTS, OUTPUTS, objs, issued, ret,
      instant, next_tick, t_pc, t_slept, t_last, state_lock, notes_lock, c_raw>>

\* ------------------------------------------------------------------------
\* Values
\* ------------------------------------------------------------------------

NoRaw == [none |-> TRUE]
NoPacket == [none |-> TRUE]
NoMsg == [none |-> TRUE]

\* struct RawMsg
RawMsg(ts, status, data1, data2, len) ==
    [ts_us |-> ts, status |-> status, data1 |-> data1, data2 |-> data2, len |-> len]

\* struct NoteEdge
NoteEdge(ts, channel, note, velocity, on) ==
    [ts_us |-> ts, channel |-> channel, note |-> note, velocity |-> velocity, on |-> on]

\* struct Record
Record(ts, kind, channel, a, b, v16, extra) ==
    [ts_us |-> ts, kind |-> kind, channel |-> channel, a |-> a, b |-> b,
     v16 |-> v16, extra |-> extra]

\* An array as the map of its non-default elements
EmptyArray == [k \in {} |-> 0]

Get(arr, k, dflt) == IF k \in DOMAIN arr THEN arr[k] ELSE dflt

Put(arr, k, v, dflt) ==
    IF v = dflt
    THEN [j \in (DOMAIN arr) \ {k} |-> arr[j]]
    ELSE [j \in (DOMAIN arr) \cup {k} |-> IF j = k THEN v ELSE arr[j]]

\* [0u64; 2]
ZeroBits == [w \in Words |-> {}]

\* State::default: every value and timestamp 0, every flag false, every bit clear
StateDefault ==
    [cc |-> EmptyArray, cc_ts |-> EmptyArray, cc_dirty |-> EmptyArray,
     pb |-> EmptyArray, pb_ts |-> EmptyArray, pb_dirty |-> EmptyArray,
     ch_pressure |-> EmptyArray, ch_pressure_ts |-> EmptyArray,
     ch_pressure_dirty |-> EmptyArray,
     program |-> EmptyArray, program_ts |-> EmptyArray, program_dirty |-> EmptyArray,
     poly_pressure |-> EmptyArray, poly_pressure_ts |-> EmptyArray,
     poly_pressure_dirty |-> EmptyArray]

\* ------------------------------------------------------------------------
\* Arithmetic helpers
\* ------------------------------------------------------------------------

Min2(a, b) == IF a <= b THEN a ELSE b

SetMin(S) == CHOOSE x \in S : \A y \in S : x <= y

\* a | b on non-negative integers
RECURSIVE BitOr(_, _)
BitOr(a, b) ==
    IF a = 0 THEN b
    ELSE IF b = 0 THEN a
    ELSE (IF (a % 2 = 1) \/ (b % 2 = 1) THEN 1 ELSE 0) + 2 * BitOr(a \div 2, b \div 2)

\* raw.status & 0xF0 and raw.status & 0x0F
StatusHigh(status) == (status \div 16) * 16
StatusLow(status) == status % 16

\* ------------------------------------------------------------------------
\* State store updates (coalescer side)
\* ------------------------------------------------------------------------

\* set_bit: bits[index / 64] |= 1 << (index % 64)
set_bit_toggled(bits, index) ==
    [bits EXCEPT ![index \div WORD_BITS] =
        IF (index % WORD_BITS) \in @ THEN @ \ {index % WORD_BITS}
        ELSE @ \cup {index % WORD_BITS}]

set_bit(bits, index) ==
    [bits EXCEPT ![index \div WORD_BITS] = @ \cup {index % WORD_BITS}]

\* The bit of index in a bitset
TestBit(bits, index) == (index % WORD_BITS) \in bits[index \div WORD_BITS]

\* Mutant of update_cc: the value and timestamp are stored, the bit is not set
update_cc_unmarked(st, channel, ctrl, val, ts_us) ==
    IF Get(st.cc, <<channel, ctrl>>, 0) # val
    THEN [st EXCEPT !.cc = Put(@, <<channel, ctrl>>, val, 0),
                    !.cc_ts = Put(@, <<channel, ctrl>>, ts_us, 0)]
    ELSE st

\* Mutant of update_cc: a slot already marked keeps its first timestamp
update_cc_first_ts(st, channel, ctrl, val, ts_us) ==
    IF Get(st.cc, <<channel, ctrl>>, 0) # val
    THEN [st EXCEPT !.cc = Put(@, <<channel, ctrl>>, val, 0),
                    !.cc_ts = IF TestBit(Get(st.cc_dirty, channel, ZeroBits), ctrl)
                              THEN @ ELSE Put(@, <<channel, ctrl>>, ts_us, 0),
                    !.cc_dirty = Put(@, channel,
                                     set_bit(Get(@, channel, ZeroBits), ctrl), ZeroBits)]
    ELSE st

update_cc(st, channel, ctrl, val, ts_us) ==
    IF Get(st.cc, <<channel, ctrl>>, 0) # val
    THEN [st EXCEPT !.cc = Put(@, <<channel, ctrl>>, val, 0),
                    !.cc_ts = Put(@, <<channel, ctrl>>, ts_us, 0),
                    !.cc_dirty = Put(@, channel,
                                     set_bit(Get(@, channel, ZeroBits), ctrl), ZeroBits)]
    ELSE st

\* ((msb as i16) << 7) | (lsb as i16), minus 8192; no i16 overflow for bytes
PitchBendValue(lsb, msb) == BitOr(msb * 128, lsb) - PB_CENTER

\* Mutant of update_pitch_bend: every message marks the slot
update_pitch_bend_always(st, channel, lsb, msb, ts_us) ==
    [st EXCEPT !.pb = Put(@, channel, PitchBendValue(lsb, msb), 0),
               !.pb_ts = Put(@, channel, ts_us, 0),
               !.pb_dirty = Put(@, channel, TRUE, FALSE)]

update_pitch_bend(st, channel, lsb, msb, ts_us) ==
    LET bend == PitchBendValue(lsb, msb) IN
    IF Get(st.pb, channel, 0) # bend
    THEN [st EXCEPT !.pb = Put(@, channel, bend, 0),
                    !.pb_ts = Put(@, channel, ts_us, 0),
                    !.pb_dirty = Put(@, channel, TRUE, FALSE)]
    ELSE st

update_ch_pressure(st, channel, pressure, ts_us) ==
    IF Get(st.ch_pressure, channel, 0) # pressure
    THEN [st EXCEPT !.ch_pressure = Put(@, channel, pressure, 0),
                    !.ch_pressure_ts = Put(@, channel, ts_us, 0),
                    !.ch_pressure_dirty = Put(@, channel, TRUE, FALSE)]
    ELSE st

\* Mutant of update_program: no comparison with the stored value
update_program_always(st, channel, prog, ts_us) ==
    [st EXCEPT !.program = Put(@, channel, prog, 0),
               !.program_ts = Put(@, channel, ts_us, 0),
               !.program_dirty = Put(@, channel, TRUE, FALSE)]

update_program(st, channel, prog, ts_us) ==
    IF Get(st.program, channel, 0) # prog
    THEN [st EXCEPT !.program = Put(@, channel, prog, 0),
                    !.program_ts = Put(@, channel, ts_us, 0),
                    !.program_dirty = Put(@, channel, TRUE, FALSE)]
    ELSE st

update_poly_pressure(st, channel, note, pressure, ts_us) ==
    IF Get(st.poly_pressure, <<channel, note>>, 0) # pressure
    THEN [st EXCEPT !.poly_pressure = Put(@, <<channel, note>>, pressure, 0),
                    !.poly_pressure_ts = Put(@, <<channel, note>>, ts_us, 0),
                    !.poly_pressure_dirty =
                        Put(@, channel, set_bit(Get(@, channel, ZeroBits), note),
                            ZeroBits)]
    ELSE st

\* push_note on the queue: drop the oldest edge when the queue is at capacity
NoteQueueFull(q) == Len(q) >= NOTE_QUEUE_CAP

\* Mutant of push_note: the new edge is refused when the queue is at capacity
push_note_newest(q, edge) ==
    IF NoteQueueFull(q) THEN q ELSE Append(q, edge)

push_note(q, edge) ==
    IF NoteQueueFull(q) THEN Append(Tail(q), edge) ELSE Append(q, edge)

\* Mutant of push_note_drops: the popped edge is not counted
push_note_uncounted(q) == 0

\* push_note on the counter: fetch_add(1) when an edge was popped
push_note_drops(q) == IF NoteQueueFull(q) THEN 1 ELSE 0

\* Mutant of IsControlChange: two bytes are enough
IsControlChangeShort(raw) == StatusHigh(raw.status) = 176 /\ raw.len >= 2

\* handle_raw: which arm of the match runs its body
IsNoteOff(raw) == StatusHigh(raw.status) = 128 /\ raw.len >= 3
IsNoteOn(raw) == StatusHigh(raw.status) = 144 /\ raw.len >= 3
IsPolyPressure(raw) == StatusHigh(raw.status) = 160 /\ raw.len >= 3
IsControlChange(raw) == StatusHigh(raw.status) = 176 /\ raw.len >= 3
IsProgramChange(raw) == StatusHigh(raw.status) = 192 /\ raw.len >= 2
IsChannelPressure(raw) == StatusHigh(raw.status) = 208 /\ raw.len >= 2
IsPitchBend(raw) == StatusHigh(raw.status) = 224 /\ raw.len >= 3

IsNote(raw) == IsNoteOff(raw) \/ IsNoteOn(raw)

\* The arrays cc[ch] and poly_pressure[ch] have 128 entries: an index taken from
\* a data byte above 127 panics, with the state lock held.
IndexPanics(raw) ==
    (IsPolyPressure(raw) \/ IsControlChange(raw)) /\ raw.data1 >= NUM_INDICES

\* handle_raw on the state store
handle_raw_state(st, raw) ==
    LET channel == StatusLow(raw.status) IN
    IF IndexPanics(raw) THEN st
    ELSE IF IsPolyPressure(raw)
        THEN update_poly_pressure(st, channel, raw.data1, raw.data2, raw.ts_us)
    ELSE IF IsControlChange(raw)
        THEN update_cc(st, channel, raw.data1, raw.data2, raw.ts_us)
    ELSE IF IsProgramChange(raw)
        THEN update_program(st, channel, raw.data1, raw.ts_us)
    ELSE IF IsChannelPressure(raw)
        THEN update_ch_pressure(st, channel, raw.data1, raw.ts_us)
    ELSE IF IsPitchBend(raw)
        THEN update_pitch_bend(st, channel, raw.data1, raw.data2, raw.ts_us)
    ELSE st

\* Mutant of handle_raw_edge: a note off with a velocity is taken for a note on
handle_raw_edge_by_velocity(raw) ==
    NoteEdge(raw.ts_us, StatusLow(raw.status), raw.data1, raw.data2, raw.data2 # 0)

\* handle_raw: the edge a note message pushes
handle_raw_edge(raw) ==
    NoteEdge(raw.ts_us, StatusLow(raw.status), raw.data1, raw.data2,
             IF IsNoteOff(raw) THEN FALSE ELSE raw.data2 # 0)

\* handle_raw on the note queue
handle_raw_notes(q, raw) ==
    IF IsNote(raw) THEN push_note(q, handle_raw_edge(raw)) ELSE q

\* handle_raw on dropped_note
handle_raw_drops(q, raw) ==
    IF IsNote(raw) THEN push_note_drops(q) ELSE 0

\* ------------------------------------------------------------------------
\* Dispatch side: collecting, sorting, encoding
\* ------------------------------------------------------------------------

\* collect_bitset, one word: lowest set bit first (trailing_zeros, val &= val - 1)
RECURSIVE collect_word(_, _)
collect_word(val, block) ==
    IF val = {} THEN <<>>
    ELSE LET tz == SetMin(val) IN
         <<block * WORD_BITS + tz>> \o collect_word(val \ {tz}, block)

RECURSIVE collect_blocks(_, _)
collect_blocks(bits, block) ==
    IF block >= NUM_WORDS THEN <<>>
    ELSE collect_word(bits[block], block) \o collect_blocks(bits, block + 1)

collect_bitset(bits) == collect_blocks(bits, 0)

\* Lines 373-383: the record of one drained edge
NoteRecord(edge) ==
    Record(edge.ts_us, KIND_NOTE, edge.channel, edge.note, edge.velocity, 0,
           IF edge.on THEN 1 ELSE 0)

DrainNotes(q) == [i \in 1 .. Len(q) |-> NoteRecord(q[i])]

\* Lines 389-402
CcRecords(st, ch) ==
    LET cc_indices == collect_bitset(Get(st.cc_dirty, ch, ZeroBits)) IN
    [i \in 1 .. Len(cc_indices) |->
        Record(Get(st.cc_ts, <<ch, cc_indices[i]>>, 0), KIND_CC, ch, cc_indices[i],
               Get(st.cc, <<ch, cc_indices[i]>>, 0), 0, 0)]

\* Lines 404-415
PbRecords(st, ch) ==
    IF Get(st.pb_dirty, ch, FALSE)
    THEN <<Record(Get(st.pb_ts, ch, 0), KIND_PB, ch, 0, 0, Get(st.pb, ch, 0), 0)>>
    ELSE <<>>

\* Lines 417-428
ChPressRecords(st, ch) ==
    IF Get(st.ch_pressure_dirty, ch, FALSE)
    THEN <<Record(Get(st.ch_pressure_ts, ch, 0), KIND_CH_PRESS, ch, 0,
                  Get(st.ch_pressure, ch, 0), 0, 0)>>
    ELSE <<>>

\* Lines 430-441
ProgRecords(st, ch) ==
    IF Get(st.program_dirty, ch, FALSE)
    THEN <<Record(Get(st.program_ts, ch, 0), KIND_PROG, ch, 0,
                  Get(st.program, ch, 0), 0, 0)>>
    ELSE <<>>

\* Lines 443-456
PolyRecords(st, ch) ==
    LET poly_indices == collect_bitset(Get(st.poly_pressure_dirty, ch, ZeroBits)) IN
    [i \in 1 .. Len(poly_indices) |->
        Record(Get(st.poly_pressure_ts, <<ch, poly_indices[i]>>, 0), KIND_POLY_PRESS,
               ch, poly_indices[i],
               Get(st.poly_pressure, <<ch, poly_indices[i]>>, 0), 0, 0)]

\* Mutant of ChannelRecords: channel pressure is collected before pitch bend
ChannelRecordsPressureFirst(st, ch) ==
    CcRecords(st, ch) \o ChPressRecords(st, ch) \o PbRecords(st, ch)
        \o ProgRecords(st, ch) \o PolyRecords(st, ch)

\* The body of the loop over channels: the records of one channel
ChannelRecords(st, ch) ==
    CcRecords(st, ch) \o PbRecords(st, ch) \o ChPressRecords(st, ch)
        \o ProgRecords(st, ch) \o PolyRecords(st, ch)

\* The body of the loop over channels: the flags and bits it clears
ClearChannel(st, ch) ==
    [st EXCEPT !.cc_dirty = Put(@, ch, ZeroBits, ZeroBits),
               !.pb_dirty = Put(@, ch, FALSE, FALSE),
               !.ch_pressure_dirty = Put(@, ch, FALSE, FALSE),
               !.program_dirty = Put(@, ch, FALSE, FALSE),
               !.poly_pressure_dirty = Put(@, ch, ZeroBits, ZeroBits)]

\* for ch in 0..16
RECURSIVE ScanRecords(_, _)
ScanRecords(st, ch) ==
    IF ch >= NUM_CHANNELS THEN <<>>
    ELSE ChannelRecords(st, ch) \o ScanRecords(st, ch + 1)

RECURSIVE ScanClear(_, _)
ScanClear(st, ch) ==
    IF ch >= NUM_CHANNELS THEN st
    ELSE ScanClear(ClearChannel(st, ch), ch + 1)

\* records.sort_by_key(|r| r.ts_us): a stable sort.  InsertByTs puts r behind
\* every record whose key is not greater.
RECURSIVE InsertByTs(_, _)
InsertByTs(sorted, r) ==
    IF sorted = <<>> THEN <<r>>
    ELSE IF sorted[Len(sorted)].ts_us <= r.ts_us THEN Append(sorted, r)
    ELSE Append(InsertByTs(SubSeq(sorted, 1, Len(sorted) - 1), r), sorted[Len(sorted)])

RECURSIVE SortFrom(_, _, _)
SortFrom(sorted, records, i) ==
    IF i > Len(records) THEN sorted
    ELSE SortFrom(InsertByTs(sorted, records[i]), records, i + 1)

\* Mutant of sort_by_key: the records stay in collection order
sort_by_key_skipped(records) == records

sort_by_key(records) == SortFrom(<<>>, records, 1)

\* Mutant of IsIdleTick: a tick without records is idle whatever was dropped
IsIdleTickNoRecords(records, n_raw, n_note) == records = <<>>

\* Mutant of IsIdleTick: the note-drop comparison is inverted
IsIdleTickInverted(records, n_raw, n_note) == records = <<>> /\ n_raw = 0 /\ n_note # 0

\* Line 464
IsIdleTick(records, n_raw, n_note) == records = <<>> /\ n_raw = 0 /\ n_note = 0

\* The arguments of encode_packet as the host decodes them from the buffer;
\* `collected` keeps the order before the sort for the history.
Packet(records, n_raw, n_note, collected) ==
    [dropped_raw |-> n_raw, dropped_note |-> n_note, record_count |-> Len(records),
     records |-> records, collected |-> collected]

\* ------------------------------------------------------------------------
\* History bookkeeping (not program state)
\* ------------------------------------------------------------------------

\* accepted: messages the ingest closure tried to send; *_counted: increments of
\* the two drop counters; *_reported, edges_out, packets: what the host callback
\* received; *_lost: what ticks that ended without a callback held
TallyInit ==
    [accepted |-> 0, raw_counted |-> 0, note_counted |-> 0,
     packets |-> 0, raw_reported |-> 0, note_reported |-> 0, edges_out |-> 0,
     raw_lost |-> 0, note_lost |-> 0, edges_lost |-> 0]

\* The slot a parameter record was read from, and the value read
SlotKey(r) == <<r.kind, r.channel, r.a>>
SlotValue(r) == IF r.kind = KIND_PB THEN r.v16 ELSE r.b

SeenAfter(old, recs) ==
    LET keys == {SlotKey(recs[i]) : i \in 1 .. Len(recs)} IN
    [k \in (DOMAIN old) \cup keys |->
        IF k \in keys
        THEN SlotValue(recs[CHOOSE i \in 1 .. Len(recs) : SlotKey(recs[i]) = k])
        ELSE old[k]]

\* The slot a parameter message addresses and the value it carries
IsParam(raw) ==
    \/ IsPolyPressure(raw)
    \/ IsControlChange(raw)
    \/ IsProgramChange(raw)
    \/ IsChannelPressure(raw)
    \/ IsPitchBend(raw)

RawSlot(raw) ==
    IF IsControlChange(raw) THEN <<KIND_CC, StatusLow(raw.status), raw.data1>>
    ELSE IF IsPolyPressure(raw) THEN <<KIND_POLY_PRESS, StatusLow(raw.status), raw.data1>>
    ELSE IF IsProgramChange(raw) THEN <<KIND_PROG, StatusLow(raw.status), 0>>
    ELSE IF IsChannelPressure(raw) THEN <<KIND_CH_PRESS, StatusLow(raw.status), 0>>
    ELSE <<KIND_PB, StatusLow(raw.status), 0>>

RawValue(raw) ==
    IF IsControlChange(raw) \/ IsPolyPressure(raw) THEN raw.data2
    ELSE IF IsPitchBend(raw) THEN PitchBendValue(raw.data1, raw.data2)
    ELSE raw.data1

\* The fields of one slot of the state store
SlotStored(st, k) ==
    CASE k[1] = KIND_CC -> Get(st.cc, <<k[2], k[3]>>, 0)
      [] k[1] = KIND_PB -> Get(st.pb, k[2], 0)
      [] k[1] = KIND_CH_PRESS -> Get(st.ch_pressure, k[2], 0)
      [] k[1] = KIND_PROG -> Get(st.program, k[2], 0)
      [] k[1] = KIND_POLY_PRESS -> Get(st.poly_pressure, <<k[2], k[3]>>, 0)

SlotTs(st, k) ==
    CASE k[1] = KIND_CC -> Get(st.cc_ts, <<k[2], k[3]>>, 0)
      [] k[1] = KIND_PB -> Get(st.pb_ts, k[2], 0)
      [] k[1] = KIND_CH_PRESS -> Get(st.ch_pressure_ts, k[2], 0)
      [] k[1] = KIND_PROG -> Get(st.program_ts, k[2], 0)
      [] k[1] = KIND_POLY_PRESS -> Get(st.poly_pressure_ts, <<k[2], k[3]>>, 0)

SlotDirty(st, k) ==
    CASE k[1] = KIND_CC -> TestBit(Get(st.cc_dirty, k[2], ZeroBits), k[3])
      [] k[1] = KIND_PB -> Get(st.pb_dirty, k[2], FALSE)
      [] k[1] = KIND_CH_PRESS -> Get(st.ch_pressure_dirty, k[2], FALSE)
      [] k[1] = KIND_PROG -> Get(st.program_dirty, k[2], FALSE)
      [] k[1] = KIND_POLY_PRESS -> TestBit(Get(st.poly_pressure_dirty, k[2], ZeroBits), k[3])

\* Every slot of the state store
Slots ==
    {<<kind, ch, i>> : kind \in {KIND_CC, KIND_POLY_PRESS}, ch \in Channels, i \in Indices}
        \cup {<<kind, ch, 0>> : kind \in {KIND_PB, KIND_CH_PRESS, KIND_PROG}, ch \in Channels}

\* The slots of st that hold anything but the default (value 0, timestamp 0,
\* not dirty).  A statement that holds of every default slot holds of every
\* slot if it holds of these.
SlotsOf(st) ==
    {<<KIND_CC, c[1], c[2]>> : c \in (DOMAIN st.cc) \cup (DOMAIN st.cc_ts)}
    \cup UNION {{<<KIND_CC, ch, i>> : i \in {j \in Indices : TestBit(st.cc_dirty[ch], j)}} :
                 ch \in DOMAIN st.cc_dirty}
    \cup {<<KIND_POLY_PRESS, c[1], c[2]>> :
                 c \in (DOMAIN st.poly_pressure) \cup (DOMAIN st.poly_pressure_ts)}
    \cup UNION {{<<KIND_POLY_PRESS, ch, i>> :
                    i \in {j \in Indices : TestBit(st.poly_pressure_dirty[ch], j)}} :
                 ch \in DOMAIN st.poly_pressure_dirty}
    \cup {<<KIND_PB, ch, 0>> :
                 ch \in (DOMAIN st.pb) \cup (DOMAIN st.pb_ts) \cup (DOMAIN st.pb_dirty)}
    \cup {<<KIND_CH_PRESS, ch, 0>> :
                 ch \in (DOMAIN st.ch_pressure) \cup (DOMAIN st.ch_pressure_ts)
                            \cup (DOMAIN st.ch_pressure_dirty)}
    \cup {<<KIND_PROG, ch, 0>> :
                 ch \in (DOMAIN st.program) \cup (DOMAIN st.program_ts)
                            \cup (DOMAIN st.program_dirty)}

NoDirty(st) == \A k \in SlotsOf(st) : ~SlotDirty(st, k)

\* run[k]: the value slot k held before the first message, and the <<value, ts>>
\* of each message applied to it since the last scan
RunAfter(old, st, raw) ==
    IF IsParam(raw) /\ ~IndexPanics(raw)
    THEN LET k == RawSlot(raw) IN
         [j \in (DOMAIN old) \cup {k} |->
            IF j = k
            THEN [start |-> IF k \in DOMAIN old THEN old[k].start ELSE SlotStored(st, k),
                  msgs |-> Append(IF k \in DOMAIN old THEN old[k].msgs ELSE <<>>,
                                  <<RawValue(raw), raw.ts_us>>)]
            ELSE old[j]]
    ELSE old

NoteCount(recs) == Cardinality({i \in 1 .. Len(recs) : recs[i].kind = KIND_NOTE})

\* ------------------------------------------------------------------------
\* Initial state: open_input has returned, both threads are running
\* ------------------------------------------------------------------------

\* ------------------------------------------------------------------------
\* packet.rs: the wire codec
\* ------------------------------------------------------------------------

\* v.to_le_bytes() for an unsigned v of n bytes
RECURSIVE to_le_bytes(_, _)
to_le_bytes(v, n) ==
    IF n = 0 THEN <<>> ELSE <<v % BYTE>> \o to_le_bytes(v \div BYTE, n - 1)

push_u16(buf, v) == buf \o to_le_bytes(v, 2)
push_u32(buf, v) == buf \o to_le_bytes(v, 4)
push_u64(buf, v) == buf \o to_le_bytes(v, 8)

\* An i16 is written as its two's complement
push_i16(buf, v) == buf \o to_le_bytes(IF v < 0 THEN v + BYTE * BYTE ELSE v, 2)

\* Lines 40-46: one record
push_record(buf, r) ==
    push_u16(push_i16(push_u64(buf, r.ts_us) \o <<r.kind, r.channel, r.a, r.b>>,
                      r.v16),
             r.extra)

\* Lines 39-47: the loop over the records
RECURSIVE push_records(_, _, _)
push_records(buf, records, i) ==
    IF i > Len(records) THEN buf
    ELSE push_records(push_record(buf, records[i]), records, i + 1)

\* Mutant of encode_header: the reserved word is left out
encode_header_short(n, dispatch_ts_us, n_raw, n_note, flags) ==
    push_u32(push_u32(push_u32(push_u64(push_u16(push_u16(push_u32(<<>>, MAGIC),
        VERSION), flags), dispatch_ts_us), n_raw), n_note), n)

\* Lines 29-37: the header of a packet of n records
encode_header(n, dispatch_ts_us, n_raw, n_note, flags) ==
    push_u32(push_u32(push_u32(push_u32(push_u64(push_u16(push_u16(push_u32(<<>>,
        MAGIC), VERSION), flags), dispatch_ts_us), n_raw), n_note), n), 0)

\* Mutant of encode_packet: the records are written last to first
encode_packet_reversed(records, dispatch_ts_us, n_raw, n_note, flags) ==
    push_records(encode_header(Len(records), dispatch_ts_us, n_raw, n_note, flags),
                 [i \in 1 .. Len(records) |-> records[Len(records) + 1 - i]], 1)

\* Lines 22-50
encode_packet(records, dispatch_ts_us, n_raw, n_note, flags) ==
    push_records(encode_header(Len(records), dispatch_ts_us, n_raw, n_note, flags),
                 records, 1)

\* No call of encode_packet is under way
NoCall == [none |-> TRUE]

\* The arguments of one call
EncodeArgs(records, dispatch_ts_us, n_raw, n_note, flags) ==
    [records |-> records, dispatch_ts_us |-> dispatch_ts_us, dropped_raw |-> n_raw,
     dropped_note |-> n_note, flags |-> flags]

\* ------------------------------------------------------------------------
\* lib.rs: the handle tables
\* ------------------------------------------------------------------------

\* A u32 is kept as <<high 16 bits, low 16 bits>>
U32(hi, lo) == <<hi, lo>>
U32Zero == U32(0, 0)
U32One == U32(0, 1)

\* fetch_add(1) on an AtomicU32 wraps around
U32Add1(x) ==
    IF x[2] + 1 < HALF THEN U32(x[1], x[2] + 1)
    ELSE IF x[1] + 1 < HALF THEN U32(x[1] + 1, 0)
    ELSE U32Zero

U32Less(x, y) == x[1] < y[1] \/ (x[1] = y[1] /\ x[2] < y[2])

\* A table without the entry of key k
Remove(table, k) == [j \in (DOMAIN table) \ {k} |-> table[j]]

\* HashMap::insert: an entry of the same key is replaced
Insert(table, k, v) == [j \in (DOMAIN table) \cup {k} |-> IF j = k THEN v ELSE table[j]]

\* input.rs lines 183-189: the InputHandle open_input returns, with the two
\* threads it spawned
NewInput ==
    [kind |-> "input", callback_enabled |-> TRUE, stop |-> FALSE, conn |-> TRUE,
     coalescer_join |-> TRUE, dispatch_join |-> TRUE,
     coalescer |-> "running", dispatcher |-> "running", closes |-> 0]

\* output.rs line 17
NewOutput == [kind |-> "output", conn |-> TRUE, closes |-> 0]

\* input.rs lines 26-32, InputHandle::close as one step; its steps and their
\* interleavings with the threads are the Close actions
close(o) ==
    [o EXCEPT !.callback_enabled = FALSE, !.stop = TRUE, !.conn = FALSE,
              !.coalescer_join = FALSE, !.dispatch_join = FALSE,
              !.closes = @ + 1]

\* An InputHandle dropped without close (replaced in the table): its fields
\* are dropped, the flags are left as they are
drop_input(o) ==
    [o EXCEPT !.conn = FALSE, !.coalescer_join = FALSE, !.dispatch_join = FALSE]

\* An OutputHandle is dropped: its connection is closed
drop_output(o) == [o EXCEPT !.conn = FALSE, !.closes = @ + 1]

\* The object table after handle id was inserted for a new object: a handle
\* replaced in the table is dropped
DropReplaced(os, table, id) ==
    IF id \in DOMAIN table
    THEN [os EXCEPT ![table[id]] =
              IF @.kind = "input" THEN drop_input(@) ELSE drop_output(@)]
    ELSE os

\* How an open can go: the port id argument is null, empty or not UTF-8 (lines
\* 42-49 and 69-76); on a valid port id open_input (input.rs lines 116-161) or
\* OutputHandle::open (output.rs lines 9-16) fails at the driver, finds no
\* such port, fails to connect, or connects
OpenAttempts ==
    {"null", "empty", "invalid_utf8", "init_failed", "port_not_found",
     "connect_failed", "connected"}

\* The n-th call of the C interface: what was called, with which open attempt
\* or handle, what it returned, and whether a close found the handle
Call(n, op, attempt, handle, result, found) ==
    [n |-> n, op |-> op, attempt |-> attempt, handle |-> handle, result |-> result,
     found |-> found]
NoCallYet == Call(0, "none", "none", U32Zero, U32Zero, FALSE)

\* A handle no open returns within the calls of a run
NeverIssued == U32(0, 9)

\* No call of encode_packet
CodecIdle ==
    /\ enc_args = NoCall
    /\ enc_buf = <<>>

\* lib.rs lines 16-18, with the id counter at start
LibInit(start) ==
    /\ NEXT_HANDLE = start
    /\ INPUTS = EmptyArray
    /\ OUTPUTS = EmptyArray
    /\ objs = <<>>
    /\ issued = <<>>
    /\ ret = NoCallYet

InputInit ==
    /\ clock = 0
    /\ conn = TRUE
    /\ cb_raw = NoRaw
    /\ cb_msg = NoMsg
    /\ rawq = <<>>
    /\ state = StateDefault
    /\ state_poisoned = FALSE
    /\ notes = <<>>
    /\ dropped_raw = 0
    /\ dropped_note = 0
    /\ stop = FALSE
    /\ callback_enabled = TRUE
    /\ c_pc = "check"
    /\ d_pc = "top"
    /\ d_dropped_raw = 0
    /\ d_dropped_note = 0
    /\ d_records = <<>>
    /\ d_packet = NoPacket
    /\ h_pc = "open"
    /\ last_packet = NoPacket
    /\ seen = EmptyArray
    /\ run = EmptyArray
    /\ tally = TallyInit

\* Line 352: next_tick = Instant::now() + period
TickInit ==
    /\ instant = 0
    /\ next_tick = instant + PERIOD
    /\ t_pc = "top"
    /\ t_slept = FALSE
    /\ t_last = [resync |-> FALSE, at |-> 0, over |-> 0, slept |-> FALSE]

\* Both mutexes unlocked, handle_raw not running
LockInit ==
    /\ state_lock = "free"
    /\ notes_lock = "free"
    /\ c_raw = NoRaw

Init ==
    /\ InputInit
    /\ CodecIdle
    /\ LibInit(U32One)
    /\ TickInit
    /\ LockInit

\* ------------------------------------------------------------------------
\* Ingest: the closure passed to midi_in.connect
\* ------------------------------------------------------------------------

\* Mutant of Accepted: status 0xF0 is let through
AcceptedThroughF0(msg) == Len(msg) > 0 /\ msg[1] >= 128 /\ msg[1] <= 240

\* Lines 139-145: the message is let through
Accepted(msg) == Len(msg) > 0 /\ msg[1] >= 128 /\ msg[1] < 240

\* Lines 146-155
MakeRaw(ts, msg) ==
    RawMsg(ts, msg[1],
           IF Len(msg) > 1 THEN msg[2] ELSE 0,
           IF Len(msg) > 2 THEN msg[3] ELSE 0,
           Min2(Len(msg), 255))

\* Mutant of IngestBegin: the closure does not test the stop flag
IngestBeginUnchecked(M, max) ==
    /\ conn
    /\ cb_raw = NoRaw
    /\ clock < max
    /\ \E m \in M :
        /\ cb_raw' = IF ~Accepted(m.msg) THEN NoRaw ELSE MakeRaw(m.ts, m.msg)
        /\ cb_msg' = m
    /\ clock' = clock + 1
    /\ UNCHANGED <<conn, rawq, storeVars, dropped_raw, dropped_note, flagVars,
                   c_pc, d_pc, dispatchLocals, h_pc, historyVars>>
    /\ UNCHANGED <<codecVars, libVars, tickVars, lockVars>>

\* Lines 135-155: the driver calls the closure with one of the messages M; the
\* closure returns early or builds the RawMsg it is about to send.
IngestBegin(M, max) ==
    /\ conn
    /\ cb_raw = NoRaw
    /\ clock < max
    /\ \E m \in M :
        /\ cb_raw' = IF stop \/ ~Accepted(m.msg) THEN NoRaw ELSE MakeRaw(m.ts, m.msg)
        /\ cb_msg' = m
    /\ clock' = clock + 1
    /\ UNCHANGED <<conn, rawq, storeVars, dropped_raw, dropped_note, flagVars,
                   c_pc, d_pc, dispatchLocals, h_pc, historyVars>>
    /\ UNCHANGED <<codecVars, libVars, tickVars, lockVars>>

\* The coalescer thread owns raw_rx: the channel is disconnected once it has ended
ReceiverAlive == c_pc \notin {"done", "panicked"}

\* Mutant of TrySendOk: the capacity test is off by one
TrySendOkOffByOne(q) == Len(q) <= RAW_QUEUE_CAP /\ ReceiverAlive

\* try_send succeeds
TrySendOk(q) == Len(q) < RAW_QUEUE_CAP /\ ReceiverAlive

\* Lines 156-158
IngestSend ==
    /\ cb_raw # NoRaw
    /\ IF TrySendOk(rawq)
       THEN /\ rawq' = Append(rawq, cb_raw)
            /\ dropped_raw' = dropped_raw
            /\ tally' = [tally EXCEPT !.accepted = @ + 1]
       ELSE /\ rawq' = rawq
            /\ dropped_raw' = dropped_raw + 1
            /\ tally' = [tally EXCEPT !.accepted = @ + 1, !.raw_counted = @ + 1]
    /\ cb_raw' = NoRaw
    /\ UNCHANGED <<clock, cb_msg, conn, storeVars, dropped_note, flagVars, c_pc,
                   d_pc, dispatchLocals, h_pc, last_packet, seen, run>>
    /\ UNCHANGED <<codecVars, libVars, tickVars, lockVars>>

\* ------------------------------------------------------------------------
\* Coalescer thread
\* ------------------------------------------------------------------------

\* handle_raw(raw, &shared) for the message at the head of the channel
HandleHead ==
    LET raw == Head(rawq) IN
    /\ rawq' = Tail(rawq)
    /\ state' = handle_raw_state(state, raw)
    /\ state_poisoned' = (state_poisoned \/ IndexPanics(raw))
    /\ notes' = handle_raw_notes(notes, raw)
    /\ dropped_note' = dropped_note + handle_raw_drops(notes, raw)
    /\ tally' = [tally EXCEPT !.note_counted = @ + handle_raw_drops(notes, raw)]
    /\ run' = RunAfter(run, state, raw)
    /\ c_pc' = IF IndexPanics(raw) THEN "panicked" ELSE "drain"

\* Line 194
CoalescerCheck ==
    /\ c_pc = "check"
    /\ c_pc' = IF stop THEN "done" ELSE "recv"
    /\ UNCHANGED <<ingestVars, conn, rawq, storeVars, dropped_raw, dropped_note,
                   flagVars, d_pc, dispatchLocals, h_pc, historyVars>>
    /\ UNCHANGED <<codecVars, libVars, tickVars, lockVars>>

\* Lines 195-204: recv_timeout returns a message, times out on an empty
\* channel, or reports the channel disconnected once raw_tx is gone
CoalescerRecv ==
    /\ c_pc = "recv"
    /\ IF rawq # <<>>
       THEN HandleHead
       ELSE /\ c_pc' = IF conn THEN "check" ELSE "done"
            /\ UNCHANGED <<rawq, storeVars, dropped_note, tally, run>>
    /\ UNCHANGED <<ingestVars, conn, dropped_raw, flagVars, d_pc, dispatchLocals,
                   h_pc, last_packet, seen>>
    /\ UNCHANGED <<codecVars, libVars, tickVars, lockVars>>

\* Lines 198-200: try_iter
CoalescerDrain ==
    /\ c_pc = "drain"
    /\ IF rawq # <<>>
       THEN HandleHead
       ELSE /\ c_pc' = "check"
            /\ UNCHANGED <<rawq, storeVars, dropped_note, tally, run>>
    /\ UNCHANGED <<ingestVars, conn, dropped_raw, flagVars, d_pc, dispatchLocals,
                   h_pc, last_packet, seen>>
    /\ UNCHANGED <<codecVars, libVars, tickVars, lockVars>>

\* ------------------------------------------------------------------------
\* Dispatch thread
\* ------------------------------------------------------------------------

\* What a tick that ends without a callback takes with it
TallyLost(t, n_raw, n_note, recs) ==
    [t EXCEPT !.raw_lost = @ + n_raw, !.note_lost = @ + n_note,
              !.edges_lost = @ + NoteCount(recs)]

\* What the host callback receives
TallyDelivered(t, packet) ==
    [t EXCEPT !.packets = @ + 1,
              !.raw_reported = @ + packet.dropped_raw,
              !.note_reported = @ + packet.dropped_note,
              !.edges_out = @ + NoteCount(packet.records)]

\* The locals of one loop iteration go out of scope
LocalsReset ==
    /\ d_dropped_raw' = 0
    /\ d_dropped_note' = 0
    /\ d_records' = <<>>
    /\ d_packet' = NoPacket

\* Mutant of DispatchTop: the loop does not test the stop flag
DispatchTopUnchecked ==
    /\ d_pc = "top"
    /\ d_pc' = "swap_raw"
    /\ UNCHANGED <<ingestVars, conn, rawq, storeVars, dropped_raw, dropped_note,
                   flagVars, c_pc, dispatchLocals, h_pc, historyVars>>
    /\ UNCHANGED <<codecVars, libVars, tickVars, lockVars>>

\* Lines 353-365: the loop condition, then the sleep to the deadline
DispatchTop ==
    /\ d_pc = "top"
    /\ d_pc' = IF stop THEN "done" ELSE "swap_raw"
    /\ UNCHANGED <<ingestVars, conn, rawq, storeVars, dropped_raw, dropped_note,
                   flagVars, c_pc, dispatchLocals, h_pc, historyVars>>
    /\ UNCHANGED <<codecVars, libVars, tickVars, lockVars>>

\* Mutant of DispatchSwapRaw: the counter is loaded and not reset
DispatchLoadRaw ==
    /\ d_pc = "swap_raw"
    /\ d_dropped_raw' = dropped_raw
    /\ d_pc' = "swap_note"
    /\ UNCHANGED <<ingestVars, conn, rawq, storeVars, dropped_raw, dropped_note,
                   flagVars, c_pc, d_dropped_note, d_records, d_packet, h_pc,
                   historyVars>>
    /\ UNCHANGED <<codecVars, libVars, tickVars, lockVars>>

\* Line 366
DispatchSwapRaw ==
    /\ d_pc = "swap_raw"
    /\ d_dropped_raw' = dropped_raw
    /\ dropped_raw' = 0
    /\ d_pc' = "swap_note"
    /\ UNCHANGED <<ingestVars, conn, rawq, storeVars, dropped_note, flagVars, c_pc,
                   d_dropped_note, d_records, d_packet, h_pc, historyVars>>
    /\ UNCHANGED <<codecVars, libVars, tickVars, lockVars>>

\* Lines 367-369
DispatchSwapNote ==
    /\ d_pc = "swap_note"
    /\ d_dropped_note' = dropped_note
    /\ dropped_note' = 0
    /\ d_records' = <<>>
    /\ d_pc' = "notes"
    /\ UNCHANGED <<ingestVars, conn, rawq, storeVars, dropped_raw, flagVars, c_pc,
                   d_dropped_raw, d_packet, h_pc, historyVars>>
    /\ UNCHANGED <<codecVars, libVars, tickVars, lockVars>>

\* Lines 371-384
DispatchDrainNotes ==
    /\ d_pc = "notes"
    /\ d_records' = d_records \o DrainNotes(notes)
    /\ notes' = <<>>
    /\ d_pc' = "state"
    /\ UNCHANGED <<ingestVars, conn, rawq, state, state_poisoned, dropped_raw,
                   dropped_note, flagVars, c_pc, d_dropped_raw, d_dropped_note,
                   d_packet, h_pc, historyVars>>
    /\ UNCHANGED <<codecVars, libVars, tickVars, lockVars>>

\* Lines 386-458; lock().unwrap() panics on a poisoned mutex
DispatchScanState ==
    /\ d_pc = "state"
    /\ IF state_poisoned
       THEN /\ d_pc' = "panicked"
            /\ tally' = TallyLost(tally, d_dropped_raw, d_dropped_note, d_records)
            /\ LocalsReset
            /\ UNCHANGED <<state, seen, run>>
       ELSE /\ d_records' = d_records \o ScanRecords(state, 0)
            /\ state' = ScanClear(state, 0)
            /\ seen' = SeenAfter(seen, ScanRecords(state, 0))
            /\ run' = EmptyArray
            /\ d_pc' = "check"
            /\ UNCHANGED <<tally, d_dropped_raw, d_dropped_note, d_packet>>
    /\ UNCHANGED <<ingestVars, conn, rawq, state_poisoned, notes, dropped_raw,
                   dropped_note, flagVars, c_pc, h_pc, last_packet>>
    /\ UNCHANGED <<codecVars, libVars, tickVars, lockVars>>

\* Lines 460-469
DispatchCheck ==
    /\ d_pc = "check"
    /\ IF stop
       THEN /\ d_pc' = "done"
            /\ tally' = TallyLost(tally, d_dropped_raw, d_dropped_note, d_records)
            /\ LocalsReset
       ELSE IF IsIdleTick(d_records, d_dropped_raw, d_dropped_note)
       THEN /\ d_pc' = "top"
            /\ tally' = tally
            /\ LocalsReset
       ELSE /\ d_pc' = "cb_load"
            /\ d_records' = sort_by_key(d_records)
            /\ d_packet' = Packet(sort_by_key(d_records), d_dropped_raw,
                                  d_dropped_note, d_records)
            /\ UNCHANGED <<tally, d_dropped_raw, d_dropped_note>>
    /\ UNCHANGED <<ingestVars, conn, rawq, storeVars, dropped_raw, dropped_note,
                   flagVars, c_pc, h_pc, last_packet, seen, run>>
    /\ UNCHANGED <<codecVars, libVars, tickVars, lockVars>>

\* Line 470: the load of callback_enabled
DispatchLoadEnabled ==
    /\ d_pc = "cb_load"
    /\ IF callback_enabled
       THEN /\ d_pc' = "cb_call"
            /\ UNCHANGED <<tally, dispatchLocals>>
       ELSE /\ d_pc' = "top"
            /\ tally' = TallyLost(tally, d_dropped_raw, d_dropped_note, d_records)
            /\ LocalsReset
    /\ UNCHANGED <<ingestVars, conn, rawq, storeVars, dropped_raw, dropped_note,
                   flagVars, c_pc, h_pc, last_packet, seen, run>>
    /\ UNCHANGED <<codecVars, libVars, tickVars, lockVars>>

\* Line 471: cb(packet.as_ptr(), packet.len())
DispatchInvoke ==
    /\ d_pc = "cb_call"
    /\ last_packet' = d_packet
    /\ tally' = TallyDelivered(tally, d_packet)
    /\ d_pc' = "top"
    /\ LocalsReset
    /\ UNCHANGED <<ingestVars, conn, rawq, storeVars, dropped_raw, dropped_note,
                   flagVars, c_pc, h_pc, seen, run>>
    /\ UNCHANGED <<codecVars, libVars, tickVars, lockVars>>

\* ------------------------------------------------------------------------
\* InputHandle::close
\* ------------------------------------------------------------------------

\* Line 27
CloseDisableCallback ==
    /\ h_pc = "open"
    /\ callback_enabled' = FALSE
    /\ h_pc' = "set_stop"
    /\ UNCHANGED <<ingestVars, conn, rawq, storeVars, dropped_raw, dropped_note,
                   stop, c_pc, d_pc, dispatchLocals, historyVars>>
    /\ UNCHANGED <<codecVars, libVars, tickVars, lockVars>>

\* Line 28
CloseSetStop ==
    /\ h_pc = "set_stop"
    /\ stop' = TRUE
    /\ h_pc' = "drop_conn"
    /\ UNCHANGED <<ingestVars, conn, rawq, storeVars, dropped_raw, dropped_note,
                   callback_enabled, c_pc, d_pc, dispatchLocals, historyVars>>
    /\ UNCHANGED <<codecVars, libVars, tickVars, lockVars>>

\* Line 29: dropping the connection closes the port; the driver does not tear
\* the closure down while it is running
CloseDropConn ==
    /\ h_pc = "drop_conn"
    /\ cb_raw = NoRaw
    /\ conn' = FALSE
    /\ h_pc' = "drop_joins"
    /\ UNCHANGED <<ingestVars, rawq, storeVars, dropped_raw, dropped_note,
                   flagVars, c_pc, d_pc, dispatchLocals, historyVars>>
    /\ UNCHANGED <<codecVars, libVars, tickVars, lockVars>>

\* Lines 30-32: the two JoinHandles are taken and dropped, which detaches the
\* threads; close returns
CloseDropJoins ==
    /\ h_pc = "drop_joins"
    /\ h_pc' = "closed"
    /\ UNCHANGED <<ingestVars, conn, rawq, storeVars, dropped_raw, dropped_note,
                   flagVars, c_pc, d_pc, dispatchLocals, historyVars>>
    /\ UNCHANGED <<codecVars, libVars, tickVars, lockVars>>

\* ------------------------------------------------------------------------
\* packet.rs: a call of encode_packet
\* ------------------------------------------------------------------------

EncodeCall ==
    /\ enc_args # NoCall
    /\ enc_buf = <<>>
    /\ enc_buf' = encode_packet(enc_args.records, enc_args.dispatch_ts_us,
                                enc_args.dropped_raw, enc_args.dropped_note,
                                enc_args.flags)
    /\ UNCHANGED <<enc_args, inputVars, libVars, tickVars, lockVars>>

\* ------------------------------------------------------------------------
\* lib.rs: the C interface
\* ------------------------------------------------------------------------

\* Lines 20-22
next_handle == NEXT_HANDLE

\* Mutant of OpenFailed: a failed open has taken an id
OpenFailedAfterId(op, attempt) ==
    /\ ret' = Call(ret.n + 1, op, attempt, U32Zero, U32Zero, FALSE)
    /\ NEXT_HANDLE' = U32Add1(NEXT_HANDLE)
    /\ UNCHANGED <<INPUTS, OUTPUTS, objs, issued>>

\* Lines 42-49 and 56, 69-76 and 83: the open returns 0
OpenFailed(op, attempt) ==
    /\ ret' = Call(ret.n + 1, op, attempt, U32Zero, U32Zero, FALSE)
    /\ UNCHANGED <<NEXT_HANDLE, INPUTS, OUTPUTS, objs, issued>>

\* Lines 35-58
midi_open_input(attempt) ==
    /\ ret.n < MaxCalls
    /\ IF attempt # "connected"
       THEN OpenFailed("open_input", attempt)
       ELSE LET id == next_handle IN
            /\ NEXT_HANDLE' = U32Add1(NEXT_HANDLE)
            /\ INPUTS' = Insert(INPUTS, id, Len(objs) + 1)
            /\ objs' = Append(DropReplaced(objs, INPUTS, id), NewInput)
            /\ issued' = Append(issued, id)
            /\ ret' = Call(ret.n + 1, "open_input", attempt, U32Zero, id, FALSE)
            /\ UNCHANGED OUTPUTS
    /\ UNCHANGED <<inputVars, codecVars, tickVars, lockVars>>

\* Lines 68-85
midi_open_output(attempt) ==
    /\ ret.n < MaxCalls
    /\ IF attempt # "connected"
       THEN OpenFailed("open_output", attempt)
       ELSE LET id == next_handle IN
            /\ NEXT_HANDLE' = U32Add1(NEXT_HANDLE)
            /\ OUTPUTS' = Insert(OUTPUTS, id, Len(objs) + 1)
            /\ objs' = Append(DropReplaced(objs, OUTPUTS, id), NewOutput)
            /\ issued' = Append(issued, id)
            /\ ret' = Call(ret.n + 1, "open_output", attempt, U32Zero, id, FALSE)
            /\ UNCHANGED INPUTS
    /\ UNCHANGED <<inputVars, codecVars, tickVars, lockVars>>

\* Mutant of midi_close_input: the handle is looked up and left in the table
midi_close_input_kept(handle) ==
    /\ ret.n < MaxCalls
    /\ IF handle \in DOMAIN INPUTS
       THEN objs' = [objs EXCEPT ![INPUTS[handle]] = close(@)]
       ELSE objs' = objs
    /\ ret' = Call(ret.n + 1, "close_input", "none", handle, U32Zero,
                   handle \in DOMAIN INPUTS)
    /\ UNCHANGED <<NEXT_HANDLE, INPUTS, OUTPUTS, issued, inputVars, codecVars, tickVars, lockVars>>

\* Lines 60-65
midi_close_input(handle) ==
    /\ ret.n < MaxCalls
    /\ IF handle \in DOMAIN INPUTS
       THEN /\ INPUTS' = Remove(INPUTS, handle)
            /\ objs' = [objs EXCEPT ![INPUTS[handle]] = close(@)]
       ELSE UNCHANGED <<INPUTS, objs>>
    /\ ret' = Call(ret.n + 1, "close_input", "none", handle, U32Zero,
                   handle \in DOMAIN INPUTS)
    /\ UNCHANGED <<NEXT_HANDLE, OUTPUTS, issued, inputVars, codecVars, tickVars, lockVars>>

\* Lines 87-90
midi_close_output(handle) ==
    /\ ret.n < MaxCalls
    /\ IF handle \in DOMAIN OUTPUTS
       THEN /\ OUTPUTS' = Remove(OUTPUTS, handle)
            /\ objs' = [objs EXCEPT ![OUTPUTS[handle]] = drop_output(@)]
       ELSE UNCHANGED <<OUTPUTS, objs>>
    /\ ret' = Call(ret.n + 1, "close_output", "none", handle, U32Zero,
                   handle \in DOMAIN OUTPUTS)
    /\ UNCHANGED <<NEXT_HANDLE, INPUTS, issued, inputVars, codecVars, tickVars, lockVars>>

\* input.rs lines 194 and 204: the coalescer of an input ends once it sees the
\* stop flag or its channel disconnected
CoalescerExit(o) ==
    /\ objs[o].kind = "input"
    /\ objs[o].coalescer = "running"
    /\ objs[o].stop \/ ~objs[o].conn
    /\ objs' = [objs EXCEPT ![o].coalescer = "done"]
    /\ UNCHANGED <<NEXT_HANDLE, INPUTS, OUTPUTS, issued, ret, inputVars, codecVars, tickVars, lockVars>>

\* input.rs lines 353 and 460: the dispatcher of an input ends once it sees the
\* stop flag
DispatcherExit(o) ==
    /\ objs[o].kind = "input"
    /\ objs[o].dispatcher = "running"
    /\ objs[o].stop
    /\ objs' = [objs EXCEPT ![o].dispatcher = "done"]
    /\ UNCHANGED <<NEXT_HANDLE, INPUTS, OUTPUTS, issued, ret, inputVars, codecVars, tickVars, lockVars>>

\* ------------------------------------------------------------------------
\* The two mutexes: the coalescer and the dispatcher step by step
\* ------------------------------------------------------------------------

\* Lines 195-204 as CoalescerRecv and lines 198-200 as CoalescerDrain, up to
\* the call of handle_raw: the message received is its parameter
CoalescerReceive ==
    /\ c_pc \in {"recv", "drain"}
    /\ IF rawq # <<>>
       THEN /\ c_raw' = Head(rawq)
            /\ rawq' = Tail(rawq)
            /\ c_pc' = "handle"
       ELSE /\ c_pc' = IF c_pc = "drain" \/ conn THEN "check" ELSE "done"
            /\ UNCHANGED <<rawq, c_raw>>
    /\ UNCHANGED <<ingestVars, conn, storeVars, dropped_raw, dropped_note, flagVars,
                   d_pc, dispatchLocals, h_pc, historyVars, state_lock, notes_lock>>
    /\ UNCHANGED <<codecVars, libVars, tickVars>>

\* Lines 211-253 and 265: the arm of the match takes the one mutex it needs,
\* once it is free; a message too short for its status takes none
CoalescerAcquire ==
    /\ c_pc = "handle"
    /\ IF IsNote(c_raw)
       THEN /\ notes_lock = "free"
            /\ notes_lock' = "coalescer"
            /\ c_pc' = "push_note"
            /\ UNCHANGED <<state_lock, c_raw>>
       ELSE IF IsParam(c_raw)
       THEN /\ state_lock = "free"
            /\ state_lock' = "coalescer"
            /\ c_pc' = "update"
            /\ UNCHANGED <<notes_lock, c_raw>>
       ELSE /\ c_pc' = "drain"
            /\ c_raw' = NoRaw
            /\ UNCHANGED <<state_lock, notes_lock>>
    /\ UNCHANGED <<ingestVars, conn, rawq, storeVars, dropped_raw, dropped_note,
                   flagVars, d_pc, dispatchLocals, h_pc, historyVars>>
    /\ UNCHANGED <<codecVars, libVars, tickVars>>

\* Lines 266-271 and the update functions: the work under the guard, which is
\* dropped when the arm or push_note ends (unwinding drops it too)
CoalescerRelease ==
    /\ c_pc \in {"push_note", "update"}
    /\ state' = handle_raw_state(state, c_raw)
    /\ state_poisoned' = (state_poisoned \/ IndexPanics(c_raw))
    /\ notes' = handle_raw_notes(notes, c_raw)
    /\ dropped_note' = dropped_note + handle_raw_drops(notes, c_raw)
    /\ tally' = [tally EXCEPT !.note_counted = @ + handle_raw_drops(notes, c_raw)]
    /\ run' = RunAfter(run, state, c_raw)
    /\ c_pc' = IF IndexPanics(c_raw) THEN "panicked" ELSE "drain"
    /\ c_raw' = NoRaw
    /\ state_lock' = IF c_pc = "update" THEN "free" ELSE state_lock
    /\ notes_lock' = IF c_pc = "push_note" THEN "free" ELSE notes_lock
    /\ UNCHANGED <<ingestVars, conn, rawq, dropped_raw, flagVars, d_pc,
                   dispatchLocals, h_pc, last_packet, seen>>
    /\ UNCHANGED <<codecVars, libVars, tickVars>>

\* Line 372
DispatchLockNotes ==
    /\ d_pc = "notes"
    /\ notes_lock = "free"
    /\ notes_lock' = "dispatcher"
    /\ d_pc' = "notes_locked"
    /\ UNCHANGED <<ingestVars, conn, rawq, storeVars, dropped_raw, dropped_note,
                   flagVars, c_pc, dispatchLocals, h_pc, historyVars, state_lock,
                   c_raw>>
    /\ UNCHANGED <<codecVars, libVars, tickVars>>

\* Mutant of DispatchUnlockNotes: the guard of the note queue outlives its block
DispatchUnlockNotesKept ==
    /\ d_pc = "notes_locked"
    /\ d_records' = d_records \o DrainNotes(notes)
    /\ notes' = <<>>
    /\ d_pc' = "state"
    /\ UNCHANGED <<ingestVars, conn, rawq, state, state_poisoned, dropped_raw,
                   dropped_note, flagVars, c_pc, d_dropped_raw, d_dropped_note,
                   d_packet, h_pc, historyVars, state_lock, notes_lock, c_raw>>
    /\ UNCHANGED <<codecVars, libVars, tickVars>>

\* Lines 373-384: the queue is drained and the guard dropped at the end of
\* the block
DispatchUnlockNotes ==
    /\ d_pc = "notes_locked"
    /\ d_records' = d_records \o DrainNotes(notes)
    /\ notes' = <<>>
    /\ notes_lock' = "free"
    /\ d_pc' = "state"
    /\ UNCHANGED <<ingestVars, conn, rawq, state, state_poisoned, dropped_raw,
                   dropped_note, flagVars, c_pc, d_dropped_raw, d_dropped_note,
                   d_packet, h_pc, historyVars, state_lock, c_raw>>
    /\ UNCHANGED <<codecVars, libVars, tickVars>>

\* Line 387: lock() returns the guard once the mutex is free; unwrap panics
\* on a poisoned mutex and the guard is dropped in the unwinding
DispatchLockState ==
    /\ d_pc = "state"
    /\ state_lock = "free"
    /\ IF state_poisoned
       THEN /\ d_pc' = "panicked"
            /\ tally' = TallyLost(tally, d_dropped_raw, d_dropped_note, d_records)
            /\ LocalsReset
            /\ UNCHANGED state_lock
       ELSE /\ d_pc' = "state_locked"
            /\ state_lock' = "dispatcher"
            /\ UNCHANGED <<tally, dispatchLocals>>
    /\ UNCHANGED <<ingestVars, conn, rawq, storeVars, dropped_raw, dropped_note,
                   flagVars, c_pc, h_pc, last_packet, seen, run, notes_lock, c_raw>>
    /\ UNCHANGED <<codecVars, libVars, tickVars>>

\* Lines 388-458: the scan, and the guard dropped at the end of the block
DispatchUnlockState ==
    /\ d_pc = "state_locked"
    /\ d_records' = d_records \o ScanRecords(state, 0)
    /\ state' = ScanClear(state, 0)
    /\ seen' = SeenAfter(seen, ScanRecords(state, 0))
    /\ run' = EmptyArray
    /\ state_lock' = "free"
    /\ d_pc' = "check"
    /\ UNCHANGED <<ingestVars, conn, rawq, state_poisoned, notes, dropped_raw,
                   dropped_note, flagVars, c_pc, d_dropped_raw, d_dropped_note,
                   d_packet, h_pc, last_packet, tally, notes_lock, c_raw>>
    /\ UNCHANGED <<codecVars, libVars, tickVars>>
\* ------------------------------------------------------------------------

\* Mutant of NextDeadline: the deadline always advances by one period
NextDeadlineNoResync(now, deadline, period) == deadline + period

\* Lines 359-363
NextDeadline(now, deadline, period) ==
    IF now > deadline + period THEN now + period ELSE deadline + period

\* Lines 353-357: the loop condition, the first read of the clock, and the
\* call of thread::sleep if the deadline lies ahead
TickTop ==
    /\ t_pc = "top"
    /\ IF stop THEN t_pc' = "done" /\ t_slept' = t_slept
       ELSE IF instant < next_tick THEN t_pc' = "sleep" /\ t_slept' = TRUE
       ELSE t_pc' = "deadline" /\ t_slept' = FALSE
    /\ UNCHANGED <<instant, next_tick, t_last>>
    /\ UNCHANGED <<inputVars, codecVars, libVars, lockVars>>

\* Line 356: thread::sleep returns once the duration has passed, or later
TickWake ==
    /\ t_pc = "sleep"
    /\ instant >= next_tick
    /\ t_pc' = "deadline"
    /\ UNCHANGED <<instant, next_tick, t_slept, t_last>>
    /\ UNCHANGED <<inputVars, codecVars, libVars, lockVars>>

\* Lines 358-363: the second read of the clock and the new deadline
TickDeadline ==
    /\ t_pc = "deadline"
    /\ next_tick' = NextDeadline(instant, next_tick, PERIOD)
    /\ t_last' = [resync |-> instant > next_tick + PERIOD, at |-> instant,
                  over |-> instant - next_tick, slept |-> t_slept]
    /\ t_pc' = "body"
    /\ UNCHANGED <<instant, t_slept>>
    /\ UNCHANGED <<inputVars, codecVars, libVars, lockVars>>

\* Lines 365-472: the rest of the iteration, which leaves next_tick alone
TickBody ==
    /\ t_pc = "body"
    /\ t_pc' = "top"
    /\ UNCHANGED <<instant, next_tick, t_slept, t_last>>
    /\ UNCHANGED <<inputVars, codecVars, libVars, lockVars>>

\* Time passes, whatever the thread is doing
TimePasses ==
    /\ instant < MaxTime
    /\ instant' = instant + 1
    /\ UNCHANGED <<next_tick, t_pc, t_slept, t_last>>
    /\ UNCHANGED <<inputVars, codecVars, libVars, lockVars>>

\* ------------------------------------------------------------------------
\* Specifications
\* ------------------------------------------------------------------------

\* What the driver delivers: the message bytes, stamped with its clock
Stamped(B) == {[ts |-> clock + 1, msg |-> b] : b \in B}

\* control change ch 0 ctrl 7 (1, 0), pitch bend ch 0, channel pressure ch 0,
\* program change ch 1, poly pressure ch 15 note 64
ParamBytes ==
    {<<176, 7, 1>>, <<176, 7, 0>>, <<224, 0, 65>>, <<208, 1>>, <<193, 1>>,
     <<175, 64, 1>>}

\* note on and note off, ch 0 note 60
NoteBytes == {<<144, 60, 100>>, <<128, 60, 0>>}

Threads ==
    \/ IngestSend
    \/ CoalescerCheck
    \/ CoalescerRecv
    \/ CoalescerDrain
    \/ DispatchTop
    \/ DispatchSwapRaw
    \/ DispatchSwapNote
    \/ DispatchDrainNotes
    \/ DispatchScanState
    \/ DispatchCheck
    \/ DispatchLoadEnabled
    \/ DispatchInvoke
    \/ CloseDisableCallback
    \/ CloseSetStop
    \/ CloseDropConn
    \/ CloseDropJoins

\* Parameter messages of all five kinds
Next == IngestBegin(Stamped(ParamBytes), MaxMsgs) \/ Threads

Spec == Init /\ [][Next]_vars

\* The steps of the coalescer thread and of the dispatch thread
CoalescerNext == CoalescerCheck \/ CoalescerRecv \/ CoalescerDrain

DispatcherNext ==
    \/ DispatchTop
    \/ DispatchSwapRaw
    \/ DispatchSwapNote
    \/ DispatchDrainNotes
    \/ DispatchScanState
    \/ DispatchCheck
    \/ DispatchLoadEnabled
    \/ DispatchInvoke

\* control change ch 0 ctrl 7, note on ch 0 note 60
FairBytes == {<<176, 7, 1>>, <<144, 60, 100>>}

NextFair == IngestBegin(Stamped(FairBytes), MaxFairMsgs) \/ Threads

\* A scheduler that lets each background thread run as long as it has a step
\* to take: recv_timeout and thread::sleep return after a bounded time, and
\* the host callback returns
SpecFair ==
    /\ Init
    /\ [][NextFair]_vars
    /\ WF_vars(CoalescerNext)
    /\ WF_vars(DispatcherNext)

\* Note messages only
NextNotes == IngestBegin(Stamped(NoteBytes), MaxNoteMsgs) \/ Threads

SpecNotes == Init /\ [][NextNotes]_vars

\* control change ch 0 ctrl 7 (1, 0) and ch 1 ctrl 70 (5)
CcBytes == {<<176, 7, 1>>, <<176, 7, 0>>, <<177, 70, 5>>}

\* Controller messages only
NextCC == IngestBegin(Stamped(CcBytes), MaxCcMsgs) \/ Threads

SpecCC == Init /\ [][NextCC]_vars

\* pitch bend ch 0: LSB 0 MSB 64 at timestamp 1000, LSB 0 MSB 65 at timestamp 500
PbMsgs ==
    {[ts |-> 1000, msg |-> <<224, 0, 64>>], [ts |-> 500, msg |-> <<224, 0, 65>>]}

\* Pitch-bend messages only, with the driver's timestamps
NextPB == IngestBegin(PbMsgs, MaxPbMsgs) \/ Threads

SpecPB == Init /\ [][NextPB]_vars

\* note on ch 0 note 60 at timestamps 100 and 50, control change ch 0 ctrl 7 at
\* timestamp 75 and ch 1 ctrl 7 at timestamp 100
OrderMsgs ==
    {[ts |-> 100, msg |-> <<144, 60, 100>>], [ts |-> 50, msg |-> <<144, 60, 100>>],
     [ts |-> 75, msg |-> <<176, 7, 1>>], [ts |-> 100, msg |-> <<177, 7, 1>>]}

\* Notes and controller messages, with the driver's timestamps
NextOrder == IngestBegin(OrderMsgs, MaxOrderMsgs) \/ Threads

SpecOrder == Init /\ [][NextOrder]_vars

\* Data bytes above 127, which the closure lets through: control change ch 0
\* ctrl 128, poly pressure ch 0 note 200, pitch bend ch 0 with MSB 128; and
\* within 0..127: control change ch 0 ctrl 7, pitch bend ch 0 LSB 127 MSB 127
WideBytes ==
    {<<176, 128, 1>>, <<160, 200, 9>>, <<224, 0, 128>>, <<176, 7, 1>>,
     <<224, 127, 127>>}

\* Messages whose data bytes range over 0..255
NextWide == IngestBegin(Stamped(WideBytes), MaxWideMsgs) \/ Threads

SpecWide == Init /\ [][NextWide]_vars

\* The records and header values encode_packet is called with
CodecRecords ==
    {Record(1000, KIND_PB, 0, 0, 0, -8192, 0),
     Record(2147483647, KIND_NOTE, 15, 127, 255, 0, 65535),
     Record(0, KIND_CC, 1, 7, 100, -1, 1),
     Record(65536, KIND_POLY_PRESS, 2, 64, 1, 32767, 258)}

CodecLists == UNION {[1 .. n -> CodecRecords] : n \in 0 .. MaxRecords}

CodecInputs ==
    {EncodeArgs(records, ts, n_raw, n_note, flags) :
        records \in CodecLists, ts \in {0, 16909060, 2147483647},
        n_raw \in {0, 258}, n_note \in {0, 65536}, flags \in {0, 513}}

InitCodec ==
    /\ InputInit
    /\ TickInit
    /\ LockInit
    /\ LibInit(U32One)
    /\ enc_args \in CodecInputs
    /\ enc_buf = <<>>

NextCodec == EncodeCall

\* encode_packet as a function of its arguments
SpecCodec == InitCodec /\ [][NextCodec]_vars

\* The id counter starts at 1, or has reached the last but one u32 after
\* 2^32 - 3 opens
LibStarts == {U32One, U32(HALF - 1, HALF - 2)}

\* The first input opened (handle 1) is still open after 2^32 - 3 opens
LibInitKept ==
    /\ NEXT_HANDLE = U32(HALF - 1, HALF - 2)
    /\ INPUTS = Insert(EmptyArray, U32One, 1)
    /\ OUTPUTS = EmptyArray
    /\ objs = <<NewInput>>
    /\ issued = <<U32One>>
    /\ ret = NoCallYet

InitLib ==
    /\ InputInit
    /\ TickInit
    /\ LockInit
    /\ CodecIdle
    /\ \/ \E start \in LibStarts : LibInit(start)
       \/ LibInitKept

\* The handles a close is called with
HandleArgs == {issued[i] : i \in 1 .. Len(issued)} \cup {NeverIssued}

NextLib ==
    \/ \E attempt \in OpenAttempts : midi_open_input(attempt)
    \/ \E attempt \in OpenAttempts : midi_open_output(attempt)
    \/ \E handle \in HandleArgs : midi_close_input(handle)
    \/ \E handle \in HandleArgs : midi_close_output(handle)
    \/ \E o \in 1 .. Len(objs) : CoalescerExit(o)
    \/ \E o \in 1 .. Len(objs) : DispatcherExit(o)

\* The C interface: opens and closes of inputs and outputs
SpecLib == InitLib /\ [][NextLib]_vars

\* A control change of 256 bytes: the closure takes a slice of any length
LongMsg == <<176, 7, 1>> \o [i \in 1 .. 253 |-> 0]

\* What the closure filters: an empty message, status 0x7F and 0xF0 (just
\* outside the range), status 0x80 with one data byte and 0xEF with none (the
\* two ends of the range), and the long message
IngestBytes == {<<>>, <<127, 1, 2>>, <<240, 1, 2>>, <<128, 60>>, <<239>>, LongMsg}

NextIngest == IngestBegin(Stamped(IngestBytes), MaxIngestMsgs) \/ Threads

\* Messages of every length and of statuses on both sides of the range
SpecIngest == Init /\ [][NextIngest]_vars

\* ------------------------------------------------------------------------
\* Claims checked under Spec
\* ------------------------------------------------------------------------

SeenValue(k) == Get(seen, k, 0)

\* The coalescer takes the message at the head of the channel in this step
CoalescerHandles == rawq # <<>> /\ rawq' = Tail(rawq)

\* The dispatcher runs lines 386-458 (the scan under the state lock) in this step
DispatcherScans == d_pc = "state" /\ d_pc' = "check"

\* C1: no value change is lost.  In every reachable state, a parameter slot
\* that is not dirty holds the value the dispatcher last read from it (the
\* initial value 0 if it never read it); so a change made after the dispatcher
\* read and cleared the slot is still marked dirty.
C1_NoChangeLost ==
    \A k \in SlotsOf(state) \cup DOMAIN seen : ~SlotDirty(state, k) => SlotStored(state, k) = SeenValue(k)

\* C1 witness: the dispatcher has read a slot, and a later change left it dirty
\* with a value that differs from the one read.
C1_Witness ==
    \E k \in DOMAIN seen : SlotDirty(state, k) /\ SlotStored(state, k) # seen[k]

\* C3: a coalescer step changes a slot only if the message addresses it with a
\* value that differs from the stored one; it then stores the value and the
\* message timestamp and marks the slot dirty.  Every other slot, and the
\* addressed slot of a message that repeats the stored value, keeps its value,
\* timestamp and dirty mark.
C3_DirtyOnlyOnChange ==
    [][CoalescerHandles =>
        LET raw == Head(rawq) IN
        \A k \in SlotsOf(state) \cup SlotsOf(state') \cup ({RawSlot(raw)} \cap Slots) :
            IF IsParam(raw) /\ RawSlot(raw) = k /\ RawValue(raw) # SlotStored(state, k)
            THEN /\ SlotStored(state', k) = RawValue(raw)
                 /\ SlotTs(state', k) = raw.ts_us
                 /\ SlotDirty(state', k)
            ELSE /\ SlotStored(state', k) = SlotStored(state, k)
                 /\ SlotTs(state', k) = SlotTs(state, k)
                 /\ SlotDirty(state', k) = SlotDirty(state, k)]_vars

\* C3 witness: two messages were applied to one slot, the second repeating the
\* value of the first: the slot still carries the first timestamp and, a tick
\* having run in between, is not dirty.
C3_Witness ==
    \E k \in DOMAIN run :
        /\ Len(run[k].msgs) = 1
        /\ run[k].msgs[1][1] = SlotStored(state, k)
        /\ run[k].start = SlotStored(state, k)
        /\ SlotStored(state, k) # 0
        /\ SlotTs(state, k) # run[k].msgs[1][2]
        /\ ~SlotDirty(state, k)

\* C9: a tick that collected no record and captured two zero drop counts goes
\* back to the top of the loop (or ends) without building a packet or calling
\* the host; the scan of a tick that finds nothing dirty leaves the state store
\* as it is; the dispatcher reaches the callback only with a record or a drop.
C9_IdleTickSilent ==
    [][/\ (d_pc = "check" /\ d_pc' # "check"
            /\ d_records = <<>> /\ d_dropped_raw = 0 /\ d_dropped_note = 0) =>
                /\ d_pc' \in {"top", "done"}
                /\ d_packet' = NoPacket
                /\ last_packet' = last_packet
                /\ tally'.packets = tally.packets
                /\ state' = state
       /\ (DispatcherScans /\ NoDirty(state)) =>
                /\ state' = state
                /\ d_records' = d_records
       /\ (d_pc' \in {"cb_load", "cb_call"}) =>
                (d_records' # <<>> \/ d_dropped_raw' # 0 \/ d_dropped_note' # 0)
      ]_vars

\* C9 witness: after a packet was delivered, a later tick stands at line 464
\* with nothing collected and nothing dropped while the input is open.
C9_Witness ==
    /\ d_pc = "check"
    /\ d_records = <<>>
    /\ d_dropped_raw = 0
    /\ d_dropped_note = 0
    /\ tally.packets > 0
    /\ ~stop

\* ------------------------------------------------------------------------
\* Claims checked under SpecNotes
\* ------------------------------------------------------------------------

\* The ingest closure runs line 156 (try_send, and fetch_add on failure)
IngestSends == cb_raw # NoRaw /\ cb_raw' = NoRaw

\* Note edges and drop counts on their way to the host
EdgesInFlight == Len(rawq) + Len(notes) + NoteCount(d_records)
DropsPending == dropped_raw + dropped_note + d_dropped_raw + d_dropped_note
DropsReported == tally.raw_reported + tally.note_reported
DropsLost == tally.raw_lost + tally.note_lost

\* Nothing is on its way and the dispatcher is between ticks or has ended
Quiescent ==
    /\ cb_raw = NoRaw
    /\ EdgesInFlight = 0
    /\ DropsPending = 0
    /\ d_pc \in {"top", "done"}

C6_Original ==
    [][/\ Len(rawq') <= RAW_QUEUE_CAP
       /\ IngestSends =>
            IF Len(rawq) >= RAW_QUEUE_CAP
            THEN rawq' = rawq /\ dropped_raw' = dropped_raw + 1
            ELSE rawq' = Append(rawq, cb_raw) /\ dropped_raw' = dropped_raw
      ]_vars

\* C6 as amended: as claimed while the coalescer thread runs; once it has ended
\* (its receiver is gone) a send fails as on a full queue: the queue is left as
\* it is and the raw-drop counter grows by one.  The send is always possible.
C6_DropNewest ==
    [][/\ Len(rawq') <= RAW_QUEUE_CAP
       /\ (cb_raw # NoRaw => ENABLED IngestSend)
       /\ IngestSends =>
            IF Len(rawq) >= RAW_QUEUE_CAP \/ c_pc \in {"done", "panicked"}
            THEN rawq' = rawq /\ dropped_raw' = dropped_raw + 1
            ELSE rawq' = Append(rawq, cb_raw) /\ dropped_raw' = dropped_raw
      ]_vars

\* C6 witness: the queue is full, the coalescer runs, and a send has failed.
C6_Witness ==
    /\ Len(rawq) = RAW_QUEUE_CAP
    /\ c_pc \notin {"done", "panicked"}
    /\ dropped_raw = 1
    /\ cb_raw = NoRaw

\* C7 as claimed: every counted drop is reported to the host in exactly one
\* packet; so when the dispatcher has ended, as many were reported as counted.
C7_Original ==
    d_pc = "done" =>
        /\ tally.raw_reported = tally.raw_counted
        /\ tally.note_reported = tally.note_counted

\* C7 as amended: every counted drop is in exactly one place: in its counter,
\* captured by the running tick, reported in a delivered packet, or captured by
\* a tick that ended without a callback (it saw the stop flag at line 460 or
\* callbacks disabled at line 470, or the thread ended).  A packet carries the
\* values its tick captured, and no tick ends without a callback while close
\* has not been called and the state lock is not poisoned.
C7_DropAccounting ==
    /\ tally.raw_counted =
          dropped_raw + d_dropped_raw + tally.raw_reported + tally.raw_lost
    /\ tally.note_counted =
          dropped_note + d_dropped_note + tally.note_reported + tally.note_lost
    /\ (d_pc \in {"cb_load", "cb_call"} =>
          /\ d_packet.dropped_raw = d_dropped_raw
          /\ d_packet.dropped_note = d_dropped_note)
    /\ (d_pc \in {"top", "swap_raw"} => d_dropped_raw = 0)
    /\ (d_pc \in {"top", "swap_raw", "swap_note"} => d_dropped_note = 0)
    /\ (h_pc = "open" /\ ~state_poisoned => DropsLost = 0)

\* C7 witness: the host has received a packet reporting a raw drop, and a drop
\* counted after that tick's swap waits in its counter.
C7_Witness ==
    /\ last_packet # NoPacket
    /\ last_packet.dropped_raw >= 1
    /\ dropped_raw >= 1
    /\ h_pc = "open"

\* C8: the note queue never exceeds its capacity.  A push on a full queue
\* removes the oldest edge alone, adds one to the note-drop counter and puts
\* the new edge last; a push on any other queue only appends.  The drain of a
\* tick takes every queued edge, in queue order, and leaves the queue empty.
C8_NoteQueue ==
    [][/\ Len(notes') <= NOTE_QUEUE_CAP
       /\ (CoalescerHandles /\ StatusHigh(Head(rawq).status) \in {128, 144}
              /\ Head(rawq).len >= 3) =>
            LET raw == Head(rawq)
                kept == IF Len(notes) >= NOTE_QUEUE_CAP THEN Len(notes) - 1
                        ELSE Len(notes)
                skip == Len(notes) - kept
            IN  /\ Len(notes') = kept + 1
                /\ \A i \in 1 .. kept : notes'[i] = notes[i + skip]
                /\ notes'[kept + 1].ts_us = raw.ts_us
                /\ notes'[kept + 1].note = raw.data1
                /\ notes'[kept + 1].velocity = raw.data2
                /\ dropped_note' = dropped_note + skip
       /\ (d_pc = "notes" /\ d_pc' # "notes") =>
            /\ notes' = <<>>
            /\ Len(d_records') = Len(d_records) + Len(notes)
            /\ \A i \in 1 .. Len(notes) :
                LET r == d_records'[Len(d_records) + i] IN
                /\ r.kind = KIND_NOTE
                /\ r.ts_us = notes[i].ts_us
                /\ r.channel = notes[i].channel
                /\ r.a = notes[i].note
                /\ r.b = notes[i].velocity
      ]_vars

\* C8 witness: a push on a full queue has dropped the oldest edge.
C8_Witness ==
    /\ Len(notes) = NOTE_QUEUE_CAP
    /\ dropped_note = 1
    /\ notes[1].ts_us > 1

\* ------------------------------------------------------------------------
\* Claims checked under SpecCC, SpecPB and SpecOrder
\* ------------------------------------------------------------------------

\* The values of a run of messages: each differs from the one before it
ConsecutiveDiffer(msgs) ==
    \A i \in 1 .. Len(msgs) - 1 : msgs[i][1] # msgs[i + 1][1]

\* Some message of the run changed the value the slot held
RunChanged(r) ==
    \E i \in 1 .. Len(r.msgs) :
        r.msgs[i][1] # (IF i = 1 THEN r.start ELSE r.msgs[i - 1][1])

\* The records of recs for slot k
SlotRecords(recs, k) == {i \in 1 .. Len(recs) : SlotKey(recs[i]) = k}

\* The scan emits exactly one record for slot k, with the value and timestamp
\* of the last message of the run
EmitsLast(k) ==
    LET msgs == run[k].msgs
        last == msgs[Len(msgs)]
        new == SubSeq(d_records', Len(d_records) + 1, Len(d_records'))
    IN  /\ SlotDirty(state, k)
        /\ SubSeq(d_records', 1, Len(d_records)) = d_records
        /\ Cardinality(SlotRecords(new, k)) = 1
        /\ \A i \in SlotRecords(new, k) :
              SlotValue(new[i]) = last[1] /\ new[i].ts_us = last[2]
        /\ ~SlotDirty(state', k)

\* C4 as claimed: when the dispatcher scans the store after a run of N >= 1
\* controller messages on one slot whose consecutive values differ, the slot is
\* marked dirty and the scan emits exactly one record for it, with the value
\* and timestamp of the last message.
C4_Original ==
    [][DispatcherScans =>
          \A k \in DOMAIN run :
              (k[1] = KIND_CC /\ ConsecutiveDiffer(run[k].msgs)) => EmitsLast(k)
      ]_vars

\* C4 as amended: the same, for runs in which the value of a lone message (N =
\* 1) differs from the value the slot held before it; a lone message that
\* repeats the stored value (0 on a fresh slot) leaves the slot unmarked and
\* the scan emits no record for it.
C4_LatestValueWins ==
    [][DispatcherScans =>
          \A k \in DOMAIN run :
              (k[1] = KIND_CC /\ ConsecutiveDiffer(run[k].msgs)) =>
                  IF Len(run[k].msgs) = 1 /\ run[k].msgs[1][1] = run[k].start
                  THEN /\ ~SlotDirty(state, k)
                       /\ SlotRecords(d_records', k) = SlotRecords(d_records, k)
                       /\ SlotStored(state, k) = run[k].start
                  ELSE EmitsLast(k)
      ]_vars

\* C4 witness: the scan is about to run after three messages on one slot whose
\* consecutive values differ.
C4_Witness ==
    /\ d_pc = "state"
    /\ \E k \in DOMAIN run :
          /\ k[1] = KIND_CC
          /\ Len(run[k].msgs) = MaxCcMsgs
          /\ ConsecutiveDiffer(run[k].msgs)
          /\ SlotDirty(state, k)
          /\ SlotStored(state, k) = run[k].start

\* The slot of pitch bend on channel 0, and the record of C5
PbSlot == <<KIND_PB, 0, 0>>
PbCentreRecord == Record(1000, KIND_PB, 0, 0, 0, 0, 0)

\* The input is fresh and a single message, LSB 0 MSB 64 at 1000, was applied
FreshSinglePb ==
    /\ tally.accepted = 1
    /\ tally.packets = 0
    /\ seen = EmptyArray
    /\ DOMAIN run = {PbSlot}
    /\ run[PbSlot] = [start |-> 0, msgs |-> << <<0, 1000>> >>]

\* C5 as claimed: on a fresh input, after the single pitch-bend message LSB 0
\* MSB 64 on channel 0 at timestamp 1000, the scan emits the record kind 2,
\* channel 0, value 0, timestamp 1000.
C5_Original ==
    [][(DispatcherScans /\ FreshSinglePb) =>
          \E i \in 1 .. Len(d_records') : d_records'[i] = PbCentreRecord
      ]_vars

\* C5 as amended: LSB 0 MSB 64 decodes to bend 0, the value of a fresh slot, so
\* on a fresh input the message changes nothing and the scan emits no record.
\* In general, after a run of pitch-bend messages on channel 0 that ends with
\* this message, the scan emits the record (kind 2, channel 0, value 0,
\* timestamp 1000) exactly when some message of the run changed the stored
\* bend.
C5_PitchBendCentre ==
    [][DispatcherScans =>
          /\ FreshSinglePb =>
                /\ state = StateDefault
                /\ state' = state
                /\ d_records' = d_records
          /\ (PbSlot \in DOMAIN run
                /\ run[PbSlot].msgs[Len(run[PbSlot].msgs)] = <<0, 1000>>) =>
                (RunChanged(run[PbSlot]) <=>
                    \E i \in 1 .. Len(d_records') : d_records'[i] = PbCentreRecord)
      ]_vars

\* C5 witness: the input is open and fresh, the single message was applied and
\* the scan that followed found nothing to emit.
C5_Witness ==
    /\ d_pc = "check"
    /\ h_pc = "open"
    /\ tally.accepted = 1
    /\ tally.raw_counted = 0
    /\ tally.packets = 0
    /\ rawq = <<>>
    /\ cb_raw = NoRaw
    /\ run = EmptyArray
    /\ state = StateDefault
    /\ d_records = <<>>

\* The place a stable sort by timestamp gives the i-th of the records c
StableRank(c, i) ==
    Cardinality({j \in 1 .. Len(c) :
                    \/ c[j].ts_us < c[i].ts_us
                    \/ (c[j].ts_us = c[i].ts_us /\ j <= i)})

Timestamps(recs) == [i \in 1 .. Len(recs) |-> recs[i].ts_us]

\* The records of packet p are its collected records in stable timestamp order
PacketOrdered(p) ==
    p # NoPacket =>
        /\ Len(p.records) = Len(p.collected)
        /\ p.record_count = Len(p.records)
        /\ \A i \in 1 .. Len(p.collected) :
              p.records[StableRank(p.collected, i)] = p.collected[i]
        /\ \A i, j \in 1 .. Len(p.records) :
              i < j => p.records[i].ts_us <= p.records[j].ts_us
        /\ \A i, j \in 1 .. Len(p.collected) :
              (i < j /\ p.collected[j].kind = KIND_NOTE) => p.collected[i].kind = KIND_NOTE
        /\ \A i, j \in 1 .. Len(p.collected) :
              (i < j /\ p.collected[i].kind # KIND_NOTE) =>
                  p.collected[i].channel <= p.collected[j].channel
        /\ (/\ Timestamps(p.collected) = <<100, 50, 75>>
            /\ p.collected[3].kind = KIND_CC) =>
                Timestamps(p.records) = <<50, 75, 100>>

\* C10: in every packet built and every packet delivered the records are in
\* non-decreasing timestamp order and records of equal timestamp keep their
\* collection order (note edges in queue order, then parameter records by
\* channel); note edges at 100 then 50 with a controller change at 75 are
\* dispatched in the order 50, 75, 100.
C10_SortedStable == PacketOrdered(d_packet) /\ PacketOrdered(last_packet)

\* C10 witness: the host received the packet of the scenario, note edges queued
\* at 100 then 50 and a controller change at 75.
C10_Witness ==
    /\ last_packet # NoPacket
    /\ Timestamps(last_packet.collected) = <<100, 50, 75>>
    /\ last_packet.collected[3].kind = KIND_CC
    /\ last_packet.records[2].kind = KIND_CC

\* ------------------------------------------------------------------------
\* Claims about close, checked under Spec
\* ------------------------------------------------------------------------

\* A thread has terminated
Terminated(pc) == pc \in {"done", "panicked"}

\* The dispatcher runs line 471: the host callback is invoked
CallbackInvoked == d_pc = "cb_call" /\ d_pc' # "cb_call"

\* The driver invokes the ingest closure
IngestBegins == clock' # clock

\* C11 as claimed: close clears the callback-enabled flag, then sets the stop
\* flag, then releases the driver connection, then waits for the coalescer and
\* the dispatcher; when close returns both threads have terminated.
C11_Original ==
    [][/\ (callback_enabled /\ ~callback_enabled') => (h_pc = "open" /\ ~stop /\ conn)
       /\ (~stop /\ stop') => (~callback_enabled /\ conn)
       /\ (conn /\ ~conn') => (~callback_enabled /\ stop)
       /\ (h_pc # "closed" /\ h_pc' = "closed") =>
            /\ ~callback_enabled /\ stop /\ ~conn
            /\ Terminated(c_pc')
            /\ Terminated(d_pc')
      ]_vars

\* C11 witness: close has returned and the dispatcher is in the middle of a
\* tick, about to invoke the host callback.
C11_Witness ==
    /\ h_pc = "closed"
    /\ ~Terminated(c_pc)
    /\ d_pc = "cb_call"

\* C12 as claimed: the host callback is invoked only while the
\* callback-enabled flag is set, and never after close has returned.
C12_Original ==
    [][CallbackInvoked => (callback_enabled /\ h_pc # "closed")]_vars

\* C12 witness: close has returned while the dispatcher, having read the flag
\* on line 470 before it was cleared, is about to invoke the callback.
C12_Witness ==
    /\ d_pc = "cb_call"
    /\ ~callback_enabled
    /\ h_pc = "closed"
    /\ d_packet # NoPacket

\* C13 as claimed: once the stop flag is set the ingest callback appends
\* nothing to the hand-off queue and changes no drop counter.
C13_Original ==
    [][(stop /\ (IngestBegins \/ IngestSends)) =>
          /\ Len(rawq') <= Len(rawq)
          /\ dropped_raw' <= dropped_raw
          /\ dropped_note' = dropped_note
      ]_vars

\* C13 as amended: an invocation of the ingest callback that begins once the
\* stop flag is set builds no message, appends nothing and changes no drop
\* counter; once the flag is set and no invocation is in flight, nothing is
\* ever appended to the hand-off queue and the raw-drop counter never grows.
\* Only the invocation that passed the stop test before the flag was set can
\* still append or count its one message.
C13_NoIngestAfterStop ==
    [][/\ (stop /\ IngestBegins) =>
            /\ cb_raw' = NoRaw
            /\ rawq' = rawq
            /\ dropped_raw' = dropped_raw
            /\ dropped_note' = dropped_note
       /\ (stop /\ cb_raw = NoRaw) =>
            /\ cb_raw' = NoRaw
            /\ Len(rawq') <= Len(rawq)
            /\ dropped_raw' <= dropped_raw
       /\ IngestSends => dropped_note' = dropped_note
      ]_vars

\* C13 witness: the driver invoked the callback after the stop flag was set,
\* and it returned without a message.
C13_Witness ==
    /\ stop
    /\ conn
    /\ cb_raw = NoRaw
    /\ clock = MaxMsgs
    /\ tally.accepted < clock
    /\ rawq = <<>>
    /\ dropped_raw = 0

\* ------------------------------------------------------------------------
\* Claims about data bytes, checked under SpecWide
\* ------------------------------------------------------------------------

\* C14 as claimed: no accepted message faults a background thread; handle_raw
\* never indexes outside the 128-wide arrays, the state lock is never
\* poisoned, and neither thread ends by a panic.
C14_Original ==
    /\ ~state_poisoned
    /\ c_pc # "panicked"
    /\ d_pc # "panicked"

\* C14 witness: a control change or poly pressure with an index above 127
\* ended the coalescer with the state lock held, and the dispatcher ended on
\* the poisoned lock.
C14_Witness ==
    /\ state_poisoned
    /\ c_pc = "panicked"
    /\ d_pc = "panicked"
    /\ h_pc = "open"

\* The bend stored for the channel of a pitch-bend message
StoredBend(st, raw) == Get(st.pb, StatusLow(raw.status), 0)

\* C15 as claimed: after the coalescer applies a pitch-bend message the stored
\* bend is ((data2 << 7) | data1) - 8192 and lies in -8192 .. 8191.
C15_Original ==
    [][(CoalescerHandles /\ IsPitchBend(Head(rawq))) =>
          LET raw == Head(rawq) IN
          /\ StoredBend(state', raw) = BitOr(raw.data2 * 128, raw.data1) - 8192
          /\ StoredBend(state', raw) >= -8192
          /\ StoredBend(state', raw) <= 8191
      ]_vars

\* C15 witness: the bend stored for channel 0 is above 8191.
C15_Witness ==
    /\ Get(state.pb, 0, 0) > 8191
    /\ Get(state.pb_dirty, 0, FALSE)

\* ------------------------------------------------------------------------
\* Claims about the wire codec, checked under SpecCodec
\* ------------------------------------------------------------------------

\* The host's reading of a buffer: n bytes at offset off (counted from 0),
\* little-endian
RECURSIVE from_le_bytes(_)
from_le_bytes(bytes) ==
    IF bytes = <<>> THEN 0 ELSE bytes[1] + BYTE * from_le_bytes(Tail(bytes))

Unsigned(buf, off, n) == from_le_bytes(SubSeq(buf, off + 1, off + n))

Signed16(buf, off) ==
    IF Unsigned(buf, off, 2) >= 32768 THEN Unsigned(buf, off, 2) - 65536
    ELSE Unsigned(buf, off, 2)

DecodeRecord(buf, off) ==
    Record(Unsigned(buf, off, 8), Unsigned(buf, off + 8, 1), Unsigned(buf, off + 9, 1),
           Unsigned(buf, off + 10, 1), Unsigned(buf, off + 11, 1),
           Signed16(buf, off + 12), Unsigned(buf, off + 14, 2))

DecodeHeader(buf) ==
    [magic |-> Unsigned(buf, 0, 4), version |-> Unsigned(buf, 4, 2),
     flags |-> Unsigned(buf, 6, 2), dispatch_ts_us |-> Unsigned(buf, 8, 8),
     dropped_raw |-> Unsigned(buf, 16, 4), dropped_note |-> Unsigned(buf, 20, 4),
     record_count |-> Unsigned(buf, 24, 4), reserved |-> Unsigned(buf, 28, 4)]

\* The buffer has header bytes of header, then one 16-byte record per input
\* record, record i (from 0) at offset header + 16 * i
LaidOut(header) ==
    /\ Len(enc_buf) = header + 16 * Len(enc_args.records)
    /\ \A i \in 0 .. Len(enc_args.records) - 1 :
          /\ header + 16 * i + 16 <= Len(enc_buf)
          /\ DecodeRecord(enc_buf, header + 16 * i) = enc_args.records[i + 1]

\* C16 as claimed: encode_packet of N records returns 24 + 16 * N bytes, a
\* 24-byte header and then record i at offset 24 + 16 * i.
C16_Original == enc_buf # <<>> => LaidOut(24)

\* C16 as amended: the header has 32 bytes (4 + 2 + 2 + 8 + 4 + 4 + 4 + 4);
\* encode_packet of N records returns 32 + 16 * N bytes and record i is at
\* offset 32 + 16 * i.
C16_Layout ==
    enc_buf # <<>> =>
        /\ LaidOut(32)
        /\ Unsigned(enc_buf, 0, 4) = MAGIC
        /\ Unsigned(enc_buf, 24, 4) = Len(enc_args.records)

\* C16 witness: a packet of two records, 64 bytes long.
C16_Witness ==
    /\ Len(enc_args.records) = MaxRecords
    /\ Len(enc_buf) = 32 + 16 * MaxRecords
    /\ enc_args.records[1] # enc_args.records[2]

\* C17: reading the buffer little-endian at the field offsets gives back the
\* magic, the version, the header values passed in, reserved 0, a record count
\* equal to the length of the list, and every record, in input order; every
\* element of the buffer is a byte.
C17_RoundTrip ==
    enc_buf # <<>> =>
        /\ \A i \in 1 .. Len(enc_buf) : enc_buf[i] \in 0 .. 255
        /\ DecodeHeader(enc_buf) =
              [magic |-> 1296647250, version |-> 1, flags |-> enc_args.flags,
               dispatch_ts_us |-> enc_args.dispatch_ts_us,
               dropped_raw |-> enc_args.dropped_raw,
               dropped_note |-> enc_args.dropped_note,
               record_count |-> Len(enc_args.records), reserved |-> 0]
        /\ (Len(enc_buf) - 32) % 16 = 0
        /\ [i \in 1 .. (Len(enc_buf) - 32) \div 16 |->
                DecodeRecord(enc_buf, 32 + 16 * (i - 1))] = enc_args.records

\* C17 witness: a packet of two different records, one with a negative signed
\* value, and header values that fill more than one byte.
C17_Witness ==
    /\ enc_buf # <<>>
    /\ Len(enc_args.records) = 2
    /\ enc_args.records[1].v16 < 0
    /\ enc_args.records[2].ts_us = 2147483647
    /\ enc_args.dispatch_ts_us = 16909060
    /\ enc_args.dropped_raw = 258
    /\ enc_args.dropped_note = 65536
    /\ enc_args.flags = 513

\* ------------------------------------------------------------------------
\* Claims about the handle tables, checked under SpecLib
\* ------------------------------------------------------------------------

\* A call of the C interface returns
Returns(ops) == ret'.n # ret.n /\ ret'.op \in ops

OpenSucceeds == Returns({"open_input", "open_output"}) /\ ret'.attempt = "connected"
OpenFails == Returns({"open_input", "open_output"}) /\ ret'.attempt # "connected"

LiveHandles == (DOMAIN INPUTS) \cup (DOMAIN OUTPUTS)

\* C18 as claimed: the handle a successful open returns is not 0, is greater
\* than every handle issued before it, and is not a handle in either table.
C18_Original ==
    [][OpenSucceeds =>
          /\ ret'.result # U32Zero
          /\ \A i \in 1 .. Len(issued) : U32Less(issued[i], ret'.result)
          /\ ret'.result \notin LiveHandles
      ]_vars

\* C18 witness: after the counter wrapped, handle 0 was returned by a
\* successful open and an open input was replaced in the table by a new one
\* of the same handle; it was never closed and its dispatcher still runs.
C18_Witness ==
    /\ U32Zero \in LiveHandles
    /\ \E o \in 1 .. Len(objs) :
          /\ objs[o].kind = "input"
          /\ \A h \in DOMAIN INPUTS : INPUTS[h] # o
          /\ objs[o].closes = 0
          /\ ~objs[o].stop
          /\ objs[o].dispatcher = "running"

\* The table is as before, without the entry of handle h
Removed(before, after, h) ==
    /\ DOMAIN after = (DOMAIN before) \ {h}
    /\ \A k \in DOMAIN after : after[k] = before[k]

\* Every object but o is as before; o went through its close sequence
ClosedOnly(o) ==
    /\ Len(objs') = Len(objs)
    /\ \A j \in 1 .. Len(objs) : j # o => objs'[j] = objs[j]
    /\ objs'[o].closes = objs[o].closes + 1
    /\ ~objs'[o].conn
    /\ objs[o].kind = "input" =>
          /\ objs'[o].stop
          /\ ~objs'[o].callback_enabled
          /\ objs'[o].coalescer = objs[o].coalescer
          /\ objs'[o].dispatcher = objs[o].dispatcher

\* C19: a close of a handle in the table of its kind removes that entry alone
\* and runs the close sequence of its object, once; a close of any other
\* handle (closed before, never issued, or of the other kind) changes no table
\* and no object.  No object is closed twice.
C19_CloseIdempotent ==
    [][/\ Returns({"close_input"}) =>
            /\ OUTPUTS' = OUTPUTS
            /\ NEXT_HANDLE' = NEXT_HANDLE
            /\ IF ret'.handle \in DOMAIN INPUTS
               THEN /\ Removed(INPUTS, INPUTS', ret'.handle)
                    /\ ClosedOnly(INPUTS[ret'.handle])
               ELSE INPUTS' = INPUTS /\ objs' = objs
       /\ Returns({"close_output"}) =>
            /\ INPUTS' = INPUTS
            /\ NEXT_HANDLE' = NEXT_HANDLE
            /\ IF ret'.handle \in DOMAIN OUTPUTS
               THEN /\ Removed(OUTPUTS, OUTPUTS', ret'.handle)
                    /\ ClosedOnly(OUTPUTS[ret'.handle])
               ELSE OUTPUTS' = OUTPUTS /\ objs' = objs
       /\ \A o \in 1 .. Len(objs') : objs'[o].closes <= 1
      ]_vars

\* C19 witness: the one input opened was closed, and the last call closed its
\* handle again and found nothing.
C19_Witness ==
    /\ ret.op = "close_input"
    /\ ~ret.found
    /\ issued = <<ret.handle>>
    /\ Len(objs) = 1
    /\ objs[1].kind = "input"
    /\ objs[1].closes = 1
    /\ LiveHandles = {}

\* C20: an open that fails returns 0, changes neither table, leaves the id
\* counter as it is and creates no handle object, so no thread.
C20_FailedOpen ==
    [][OpenFails =>
          /\ ret'.result = U32Zero
          /\ INPUTS' = INPUTS
          /\ OUTPUTS' = OUTPUTS
          /\ NEXT_HANDLE' = NEXT_HANDLE
          /\ issued' = issued
          /\ objs' = objs
      ]_vars

\* C20 witness: with an input open, an open of an input failed at connect.
C20_Witness ==
    /\ ret.op = "open_input"
    /\ ret.attempt = "connect_failed"
    /\ ret.result = U32Zero
    /\ DOMAIN INPUTS = {U32One}
    /\ NEXT_HANDLE = U32(0, 2)
    /\ Len(objs) = 1

\* One message short of its length for each of the seven statuses, and a
\* complete control change and note on
ShortBytes ==
    {<<128, 60>>, <<144, 60>>, <<160, 64>>, <<176, 7>>, <<224, 1>>, <<192>>, <<208>>,
     <<176, 7, 1>>, <<144, 60, 100>>}

NextShort == IngestBegin(Stamped(ShortBytes), MaxShortMsgs) \/ Threads

\* Messages shorter than their status requires
SpecShort == Init /\ [][NextShort]_vars

\* note on ch 0 note 60 with velocity 100 and with velocity 0, note off ch 0
\* note 60 with release velocity 64, note on ch 9 note 36, control change ch 0
EdgeBytes ==
    {<<144, 60, 100>>, <<144, 60, 0>>, <<128, 60, 64>>, <<153, 36, 1>>, <<176, 7, 1>>}

NextEdges == IngestBegin(Stamped(EdgeBytes), MaxEdgeMsgs) \/ Threads

\* Note messages of both statuses beside a parameter message
SpecEdges == Init /\ [][NextEdges]_vars

\* Messages the coalescer has handled before the tick that is looked at, in
\* order of arrival: on channel 15 controllers 100 and 7, poly pressure of
\* notes 64 and 3, program, channel pressure and pitch bend; on channel 0
\* controller 70 and pitch bend; on channel 1 controller 7 set to the value it
\* has
ScanMsgs ==
    <<<<191, 100, 5>>, <<191, 7, 6>>, <<175, 64, 1>>, <<175, 3, 2>>, <<207, 9>>,
      <<223, 8>>, <<239, 1, 65>>, <<176, 70, 1>>, <<177, 7, 0>>, <<224, 0, 65>>>>

\* The state store after handle_raw ran on the first n of the messages, stamped
\* 1 .. n by the driver
RECURSIVE HandledState(_, _)
HandledState(msgs, n) ==
    IF n = 0 THEN StateDefault
    ELSE handle_raw_state(HandledState(msgs, n - 1), MakeRaw(n, msgs[n]))

RECURSIVE HandledRun(_, _)
HandledRun(msgs, n) ==
    IF n = 0 THEN EmptyArray
    ELSE RunAfter(HandledRun(msgs, n - 1), HandledState(msgs, n - 1),
                  MakeRaw(n, msgs[n]))

\* How many of the messages were handled before the first tick
ScanPrefixes ==
    {n \in {MaxScanMsgs - 2, MaxScanMsgs - 1, MaxScanMsgs} : n \in 1 .. Len(ScanMsgs)}

\* An open input whose coalescer has handled n messages and whose dispatcher
\* has not completed a tick yet
InitScan ==
    /\ \E n \in ScanPrefixes :
        /\ clock = n
        /\ cb_msg = [ts |-> n, msg |-> ScanMsgs[n]]
        /\ state = HandledState(ScanMsgs, n)
        /\ run = HandledRun(ScanMsgs, n)
        /\ tally = [TallyInit EXCEPT !.accepted = n]
    /\ conn = TRUE
    /\ cb_raw = NoRaw
    /\ rawq = <<>>
    /\ state_poisoned = FALSE
    /\ notes = <<>>
    /\ dropped_raw = 0
    /\ dropped_note = 0
    /\ stop = FALSE
    /\ callback_enabled = TRUE
    /\ c_pc = "check"
    /\ d_pc = "top"
    /\ d_dropped_raw = 0
    /\ d_dropped_note = 0
    /\ d_records = <<>>
    /\ d_packet = NoPacket
    /\ h_pc = "open"
    /\ last_packet = NoPacket
    /\ seen = EmptyArray
    /\ CodecIdle
    /\ LibInit(U32One)
    /\ TickInit
    /\ LockInit

\* What arrives later: the controller 7 of channel 15 again, with the value
\* it has and with another, and a note on
ScanBytes == {<<191, 7, 6>>, <<191, 7, 9>>, <<144, 60, 100>>}

NextScan == IngestBegin(Stamped(ScanBytes), MaxScanMsgs) \/ Threads

\* Ticks over a store with many dirty slots
SpecScan == InitScan /\ [][NextScan]_vars

NextTick ==
    \/ TickTop
    \/ TickWake
    \/ TickDeadline
    \/ TickBody
    \/ TimePasses

\* The deadline arithmetic of the dispatcher against a clock that may run
\* ahead of it by any amount
SpecTick == Init /\ [][NextTick]_vars

\* control change ch 0 ctrl 7, note on ch 0 note 60, and a control change of
\* two bytes, for which handle_raw takes no mutex
LockBytes == {<<176, 7, 1>>, <<144, 60, 100>>, <<176, 7>>}

NextLocks ==
    \/ IngestBegin(Stamped(LockBytes), MaxLockMsgs)
    \/ IngestSend
    \/ CoalescerCheck
    \/ CoalescerReceive
    \/ CoalescerAcquire
    \/ CoalescerRelease
    \/ DispatchTop
    \/ DispatchSwapRaw
    \/ DispatchSwapNote
    \/ DispatchLockNotes
    \/ DispatchUnlockNotes
    \/ DispatchLockState
    \/ DispatchUnlockState
    \/ DispatchCheck
    \/ DispatchLoadEnabled
    \/ DispatchInvoke
    \/ CloseDisableCallback
    \/ CloseSetStop
    \/ CloseDropConn
    \/ CloseDropJoins

\* The pipeline with each lock() and each drop of a guard as a step
SpecLocks == Init /\ [][NextLocks]_vars

\* ------------------------------------------------------------------------
\* Claims checked under SpecIngest
\* ------------------------------------------------------------------------

\* Zero length, or a status byte outside [0x80, 0xEF]
Rejected(msg) == Len(msg) = 0 \/ msg[1] < 128 \/ msg[1] > 239

\* Data byte i of the message, 0 when the message has none
DataByte(msg, i) == IF Len(msg) >= i + 1 THEN msg[i + 1] ELSE 0

\* The closure returns at once: nothing is enqueued or counted, and no
\* try-send follows
SilentReturn ==
    /\ cb_raw' = NoRaw
    /\ rawq' = rawq
    /\ dropped_raw' = dropped_raw
    /\ tally' = tally

\* One try-send of the message built: it is enqueued, or the raw-drop counter
\* goes up by one
OneTrySend ==
    /\ tally'.accepted = tally.accepted + 1
    /\ \/ rawq' = Append(rawq, cb_raw) /\ dropped_raw' = dropped_raw
       \/ rawq' = rawq /\ dropped_raw' = dropped_raw + 1

\* Try-sends happen in the send step of the closure alone, one per invocation
TrySendsOnlyFromClosure ==
    /\ IngestSends => OneTrySend
    /\ (tally'.accepted # tally.accepted \/ Len(rawq') > Len(rawq)) => IngestSends

\* C21 as claimed: an invocation with zero length or a status outside
\* [0x80, 0xEF] enqueues and counts nothing; every other invocation makes one
\* try-send of (timestamp, status, data1 or 0, data2 or 0, length).
C21_Original ==
    [][/\ IngestBegins =>
            LET m == cb_msg' IN
            IF Rejected(m.msg) THEN SilentReturn
            ELSE cb_raw' = RawMsg(m.ts, m.msg[1], DataByte(m.msg, 1),
                                  DataByte(m.msg, 2), Len(m.msg))
       /\ TrySendsOnlyFromClosure]_vars

\* C21 as amended: an invocation with zero length or a status outside
\* [0x80, 0xEF] enqueues and counts nothing, whatever the queue holds; so does
\* every invocation that finds the stop flag set; every other invocation makes
\* one try-send of (timestamp, status, data1 or 0, data2 or 0, length capped at
\* 255).
C21_IngestFilter ==
    [][/\ IngestBegins =>
            LET m == cb_msg' IN
            IF Rejected(m.msg) \/ stop THEN SilentReturn
            ELSE cb_raw' = RawMsg(m.ts, m.msg[1], DataByte(m.msg, 1),
                                  DataByte(m.msg, 2),
                                  IF Len(m.msg) > 255 THEN 255 ELSE Len(m.msg))
       /\ TrySendsOnlyFromClosure]_vars

\* C21 witness: the queue has been full since the second send, the third
\* invocation carried a rejected message, and no drop was ever counted.
C21_Witness ==
    /\ clock = MaxIngestMsgs
    /\ Len(rawq) = RAW_QUEUE_CAP
    /\ tally.accepted = RAW_QUEUE_CAP
    /\ cb_msg # NoMsg
    /\ Rejected(cb_msg.msg)
    /\ cb_raw = NoRaw
    /\ dropped_raw = 0
    /\ tally.raw_counted = 0
    /\ ~stop

\* ------------------------------------------------------------------------
\* Claims checked under SpecShort
\* ------------------------------------------------------------------------

\* The bytes a status requires: 2 for program change and channel pressure, 3
\* for note off, note on, poly pressure, control change and pitch bend
RequiredLen(status) == IF StatusHigh(status) \in {192, 208} THEN 2 ELSE 3

UnderLength(raw) == raw.len < RequiredLen(raw.status)

\* C22: when the coalescer handles a message shorter than its status requires,
\* the state store (values, timestamps, dirty flags and bitsets), the note
\* queue and both drop counters stay as they are.
C22_UnderLengthIgnored ==
    [][(CoalescerHandles /\ UnderLength(Head(rawq))) =>
            /\ state' = state
            /\ notes' = notes
            /\ dropped_raw' = dropped_raw
            /\ dropped_note' = dropped_note
            /\ ~state_poisoned']_vars

\* C22 witness: a control change (ctrl 7 := 1) and then a two-byte control
\* change for the same controller were handled; the store holds what the
\* first one wrote and nothing else, and no tick has run.
C22_Witness ==
    /\ clock = MaxShortMsgs
    /\ tally.accepted = MaxShortMsgs
    /\ rawq = <<>>
    /\ cb_raw = NoRaw
    /\ cb_msg.msg = <<176, 7>>
    /\ state = update_cc(StateDefault, 0, 7, 1, 1)
    /\ notes = <<>>
    /\ dropped_raw = 0
    /\ dropped_note = 0
    /\ d_pc = "top"
    /\ tally.packets = 0

\* ------------------------------------------------------------------------
\* Claims checked under SpecEdges
\* ------------------------------------------------------------------------

\* A note-off or note-on message of at least 3 bytes
NoteMessage(raw) == raw.status \div 16 \in {8, 9} /\ raw.len >= 3

\* Two edges that differ in their timestamps at most
SameEdge(e1, e2) ==
    /\ e1.channel = e2.channel
    /\ e1.note = e2.note
    /\ e1.velocity = e2.velocity
    /\ e1.on = e2.on

\* C23: when the coalescer handles a note-off or note-on message of at least 3
\* bytes, the note queue afterwards is the queue before (less its head, if it
\* was full) with one edge added at the tail, whether or not that edge repeats
\* the one before it; the edge has the message timestamp, channel = status mod
\* 16, note = data1, velocity = data2, on = FALSE for status 0x8n and on =
\* (velocity # 0) for status 0x9n; the state store is left as it is.
C23_NoteEdgeAlwaysPushed ==
    [][(CoalescerHandles /\ NoteMessage(Head(rawq))) =>
            LET raw == Head(rawq)
                before == IF Len(notes) >= NOTE_QUEUE_CAP THEN Tail(notes) ELSE notes
                edge == notes'[Len(notes')]
            IN  /\ Len(notes') = Len(before) + 1
                /\ SubSeq(notes', 1, Len(before)) = before
                /\ edge.ts_us = raw.ts_us
                /\ edge.channel = raw.status % 16
                /\ edge.note = raw.data1
                /\ edge.velocity = raw.data2
                /\ edge.on = IF raw.status \div 16 = 8 THEN FALSE ELSE raw.data2 # 0
                /\ state' = state
                /\ ~state_poisoned']_vars

\* C23 witness: the queue holds two edges of a note on with velocity 0 that
\* differ in their timestamps alone, the second pushed behind the first.
C23_Witness ==
    /\ Len(notes) = 2
    /\ SameEdge(notes[1], notes[2])
    /\ notes[1].ts_us < notes[2].ts_us
    /\ cb_msg.msg = <<144, 60, 0>>
    /\ ~notes[2].on
    /\ dropped_note = 0

\* ------------------------------------------------------------------------
\* Claims checked under SpecScan
\* ------------------------------------------------------------------------

\* Place of a kind within a channel: controllers, pitch bend, channel
\* pressure, program, poly pressure
KindPlace(kind) ==
    CASE kind = KIND_CC -> 1
      [] kind = KIND_PB -> 2
      [] kind = KIND_CH_PRESS -> 3
      [] kind = KIND_PROG -> 4
      [] kind = KIND_POLY_PRESS -> 5

\* r1 is collected before r2
CollectedBefore(r1, r2) ==
    \/ r1.channel < r2.channel
    \/ r1.channel = r2.channel /\ KindPlace(r1.kind) < KindPlace(r2.kind)
    \/ r1.channel = r2.channel /\ r1.kind = r2.kind /\ r1.a < r2.a

DirtySlots(st) == {k \in SlotsOf(st) : SlotDirty(st, k)}

\* The record of slot k: index in a for controllers and poly pressure, the
\* value in v16 for pitch bend and in b for the others, every other field 0
SlotRecord(st, k) ==
    Record(SlotTs(st, k), k[1], k[2], k[3],
           IF k[1] = KIND_PB THEN 0 ELSE SlotStored(st, k),
           IF k[1] = KIND_PB THEN SlotStored(st, k) ELSE 0, 0)

\* C24: the scan of a tick appends to the records collected so far one record
\* per dirty slot and no other, each with the slot's value and timestamp, in
\* ascending order of channel, then kind (controllers, pitch bend, channel
\* pressure, program, poly pressure), then index; when it ends no flag or bit
\* of the store is set.
C24_ScanOrder ==
    [][DispatcherScans =>
            LET n == Len(d_records)
                recs == SubSeq(d_records', n + 1, Len(d_records'))
            IN  /\ SubSeq(d_records', 1, n) = d_records
                /\ \A i, j \in 1 .. Len(recs) : i < j => CollectedBefore(recs[i], recs[j])
                /\ {recs[i] : i \in 1 .. Len(recs)} = {SlotRecord(state, k) : k \in DirtySlots(state)}
                /\ Len(recs) = Cardinality(DirtySlots(state))
                /\ DirtySlots(state') = {}]_vars

\* C24 witness: a tick has collected the nine dirty slots of channels 0 and
\* 15, all five kinds among them, which were written in another order than
\* they are collected in.
C24_Witness ==
    /\ d_pc = "check"
    /\ Len(d_records) = 9
    /\ {d_records[i].kind : i \in 1 .. 9} =
            {KIND_CC, KIND_PB, KIND_CH_PRESS, KIND_PROG, KIND_POLY_PRESS}
    /\ {d_records[i].channel : i \in 1 .. 9} = {0, 15}
    /\ \E i, j \in 1 .. 9 : i < j /\ d_records[i].ts_us > d_records[j].ts_us
    /\ DirtySlots(state) = {}
    /\ tally.packets = 0

\* ------------------------------------------------------------------------
\* Claims checked under SpecTick
\* ------------------------------------------------------------------------

\* The dispatcher computes a deadline in this step
DeadlineComputed == t_pc = "deadline" /\ t_pc' = "body"

\* The dispatcher begins an iteration in this step
IterationBegins == t_pc = "top" /\ t_pc' # "top"

C26_LoopsExit ==
    /\ stop ~> (Terminated(c_pc) /\ Terminated(d_pc))
    /\ [][/\ (stop /\ c_pc = "check" /\ c_pc' # c_pc) => c_pc' = "done"
          /\ (c_pc' = "recv" /\ c_pc # "recv") => (c_pc = "check" /\ ~stop)
          /\ (stop /\ d_pc \in {"top", "check"} /\ d_pc' # d_pc) => d_pc' = "done"
          /\ (d_pc' = "swap_raw" /\ d_pc # "swap_raw") => (d_pc = "top" /\ ~stop)
          /\ Terminated(c_pc) => c_pc' = c_pc
          /\ Terminated(d_pc) => (d_pc' = d_pc /\ ~CallbackInvoked)]_vars

\* C26 witness: close set the stop flag while the dispatcher was past the top
\* of a tick that had collected a record; the tick was abandoned after its
\* scan and both threads have ended.
C26_Witness ==
    /\ stop
    /\ c_pc = "done"
    /\ d_pc = "done"
    /\ tally.accepted = MaxFairMsgs
    /\ tally.packets = 0
    /\ DOMAIN seen # {}

\* ------------------------------------------------------------------------
\* Drop-only packets (checked under SpecNotes)
\* ------------------------------------------------------------------------

\* The tick at line 460 holds no record and at least one captured drop
DropOnlyTick ==
    /\ d_pc = "check"
    /\ d_records = <<>>
    /\ (d_dropped_raw # 0 \/ d_dropped_note # 0)

\* A packet without records that reports drops
DropOnlyPacket(p) ==
    /\ p # NoPacket
    /\ p.record_count = 0
    /\ p.records = <<>>
    /\ (p.dropped_raw # 0 \/ p.dropped_note # 0)

\* C27: a tick that holds no record and a captured drop count above zero, and
\* reads the stop flag clear at line 460, builds a packet with record count 0
\* and the two captured counts, whose encoding has a header with count 0 and
\* those counts and no record bytes; if it then reads the callback-enabled
\* flag set it calls the host with that packet.  While close has not been
\* called both flags read that way.
C27_DropOnlyPacket ==
    [][/\ (DropOnlyTick /\ d_pc' # d_pc /\ ~stop) =>
            /\ d_pc' = "cb_load"
            /\ d_packet' = Packet(<<>>, d_dropped_raw, d_dropped_note, <<>>)
            /\ LET buf == encode_packet(<<>>, 0, d_dropped_raw, d_dropped_note, 0) IN
                /\ Len(buf) = 32
                /\ DecodeHeader(buf).record_count = 0
                /\ DecodeHeader(buf).dropped_raw = d_dropped_raw
                /\ DecodeHeader(buf).dropped_note = d_dropped_note
       /\ (d_pc = "cb_load" /\ d_pc' # d_pc /\ callback_enabled) =>
            /\ d_pc' = "cb_call"
            /\ d_packet' = d_packet
       /\ (d_pc = "cb_call" /\ d_pc' # d_pc) =>
            /\ last_packet' = d_packet
            /\ tally'.packets = tally.packets + 1
       /\ (h_pc = "open") => (~stop /\ callback_enabled)]_vars

\* C27 witness: with the input open, the host has received a packet without
\* records that reports a note drop.
C27_Witness ==
    /\ h_pc = "open"
    /\ DropOnlyPacket(last_packet)
    /\ last_packet.dropped_note >= 1
    /\ last_packet.dropped_raw = 0

\* ------------------------------------------------------------------------
\* Claims checked under SpecLocks
\* ------------------------------------------------------------------------

\* The mutexes thread t holds
Holds(t) ==
    {m \in {"state", "notes"} :
        (m = "state" /\ state_lock = t) \/ (m = "notes" /\ notes_lock = t)}

\* Thread t is at a call of lock() in this state
CoalescerAtLock == c_pc = "handle" /\ (IsNote(c_raw) \/ IsParam(c_raw))
DispatcherAtLock == d_pc \in {"notes", "state"}

\* C28: no thread holds both mutexes at once, and a thread that calls lock()
\* holds neither, so no thread waits for one mutex while it holds the other.
\* Within handle_raw the coalescer holds the note mutex for a note message and
\* the state mutex for a parameter message, and none outside it; the
\* dispatcher holds the note mutex while it drains and the state mutex while
\* it scans, and has released the first before it asks for the second.
C28_LocksDisjoint ==
    /\ Cardinality(Holds("coalescer")) <= 1
    /\ Cardinality(Holds("dispatcher")) <= 1
    /\ CoalescerAtLock => Holds("coalescer") = {}
    /\ DispatcherAtLock => Holds("dispatcher") = {}
    /\ Holds("coalescer") =
            (IF c_pc = "push_note" THEN {"notes"}
             ELSE IF c_pc = "update" THEN {"state"} ELSE {})
    /\ Holds("dispatcher") =
            (IF d_pc = "notes_locked" THEN {"notes"}
             ELSE IF d_pc = "state_locked" THEN {"state"} ELSE {})
    /\ (c_pc = "push_note" => IsNote(c_raw))
    /\ (c_pc = "update" => IsParam(c_raw))

\* C28 witness: the coalescer pushes a note under the note mutex while the
\* dispatcher scans under the state mutex.
C28_Witness ==
    /\ notes_lock = "coalescer"
    /\ state_lock = "dispatcher"
    /\ c_pc = "push_note"
    /\ d_pc = "state_locked"

\* ------------------------------------------------------------------------
\* Who writes what (checked under SpecCC)
\* ------------------------------------------------------------------------

\* A step of the dispatch thread
DispatcherSteps == d_pc' # d_pc

\* Value and timestamp of every slot are the same before and after the step
ValuesKept ==
    \A k \in SlotsOf(state) \cup SlotsOf(state') :
        /\ SlotStored(state', k) = SlotStored(state, k)
        /\ SlotTs(state', k) = SlotTs(state, k)

\* The step sets no dirty flag or bit
NothingMarked ==
    \A k \in SlotsOf(state') : SlotDirty(state', k) => SlotDirty(state, k)

\* The step clears no dirty flag or bit
NothingCleared ==
    \A k \in SlotsOf(state) : SlotDirty(state, k) => SlotDirty(state', k)

\* C29: a step of the dispatcher keeps every stored value and timestamp and
\* sets no dirty flag; it leaves the note queue as it is or empties it, and
\* each drop counter as it is or at zero.  A step that changes a value or a
\* timestamp is the coalescer handling a message, and such a step clears no
\* dirty flag, whatever value it stores; a step that clears one is the scan of
\* the dispatcher.
C29_WritersAndClearers ==
    [][/\ DispatcherSteps =>
            /\ ValuesKept
            /\ NothingMarked
            /\ notes' \in {notes, <<>>}
            /\ dropped_raw' \in {dropped_raw, 0}
            /\ dropped_note' \in {dropped_note, 0}
       /\ ~ValuesKept => CoalescerHandles
       /\ CoalescerHandles => NothingCleared
       /\ ~NothingCleared => DispatcherScans
       /\ (state' # state) => (CoalescerHandles \/ DispatcherScans)]_vars

\* C29 witness: controller 7 was dispatched with value 1, set to 0 and set
\* back to 1 before the next scan: it holds the value the host has, and is
\* still dirty.
C29_Witness ==
    \E k \in DOMAIN seen :
        /\ k \in DOMAIN run
        /\ Len(run[k].msgs) = 2
        /\ run[k].start = seen[k]
        /\ SlotStored(state, k) = seen[k]
        /\ SlotStored(state, k) # 0
        /\ SlotDirty(state, k)

====
